---- MODULE Spec2Model ----
(***************************************************************************)
(* Verification model of the Airbnb rental scraper.                        *)
(*                                                                         *)
(*   Spec        AirbnbScraper.Scrape: discovery, the per-section          *)
(*               pagination loop (scrapeSection), scrapePage under         *)
(*               RetryWithBackoff, the seenURLs filter and enrichDetail.   *)
(*   SpecRetry   RetryWithBackoff run on its own for every maxRetries.     *)
(*   SpecTracker URLTracker used by one caller.                            *)
(*   SpecDedup   several goroutines doing the mutex-guarded                *)
(*               check-and-insert (URLTracker.Add, scrapeSection).         *)
(*   SpecRL      RateLimiter.Wait against a discrete clock.                *)
(*   SpecRun, SpecScenario, SpecNoURL, SpecConc: the crawl with main, on   *)
(*               fixed sites, and run twice for two MaxConcurrency values. *)
(*   SpecLog     the crawl of a fixed site with its page loads logged.     *)
(*   SpecCleaner, SpecParse, SpecCleanTwice, SpecInsight: CleanerService   *)
(*               and InsightService on bounded inputs.                     *)
(*                                                                         *)
(* scraper.go holds two versions of the scraper one after the other; the   *)
(* model follows the second one (lines 422-856).                           *)
(***************************************************************************)
EXTENDS Integers, Sequences, FiniteSets, TLC

VARIABLES
    \* ---- AirbnbScraper / Scrape
    pc,          \* position of the Scrape goroutine
    cfg,         \* config.Config fields read by the scraper
    sections,    \* sections returned by discovery or the fallback list
    secIdx,      \* index of the section of the range loop in Scrape
    allListings, \* Scrape: allListings
    seenURLs,    \* AirbnbScraper.seenURLs (keys mapped to true)
    collected,   \* scrapeSection: collected
    currentURL,  \* scrapeSection: currentURL
    listings,    \* scrapePage: listings
    nextURL,     \* scrapePage: nextURL
    idx,         \* position of the range loop over listings
    secFailed,   \* the section loop was left through an error / empty page break
    secResults,  \* history: per finished section, how it ended and what it returned
    io,          \* outbound operations performed by the last step, in order
    lastOp,      \* history: the last outbound operation performed so far
    discovery,   \* history: how discoverSections ended
    deadline,    \* the run's context deadline, and where the crawl was at expiry
    \* ---- main, after Scrape has returned
    csvErr,      \* WriteRawListings returned an error
    cleanListings, \* cleaner.Clean(rawListings)
    dbRows,      \* <<>>, or <<the argument BatchInsert was called with>>
    dbRet,       \* what BatchInsert returned
    reported,    \* the insight report was generated and printed
    exitCode,    \* <<>> while the process runs, then <<its exit status>>
    \* ---- RetryWithBackoff
    r_pc,        \* position inside RetryWithBackoff
    attempt,     \* loop variable attempt
    lastErr,     \* lastErr
    r_ret,       \* returned error (RetNil for nil)
    r_calls,     \* history: result of every call of fn, in order
    r_sleeps,    \* history: time.Sleep durations in seconds, in order
    \* ---- URLTracker / concurrent dedup
    t_seen,      \* URLTracker.seen
    t_mu,        \* URLTracker.mu holder
    s_mu,        \* AirbnbScraper.mu holder
    w_pc,        \* position of each worker goroutine
    w_key,       \* key a worker is adding
    w_ret,       \* what the worker observed
    w_obj,       \* which set the worker is using: the tracker or seenURLs
    t_hist,      \* history: set, key and result of every completed check-and-insert
    t_count,     \* result of the last Count(), and how many Adds had completed
    \* ---- RateLimiter
    now,         \* the clock (time.Now())
    rl_lastCall, \* RateLimiter.lastCall
    rl_delay,    \* RateLimiter.delay
    rl_mu,       \* RateLimiter.mu holder
    rl_pc,       \* position of each caller inside Wait
    rl_elapsed,  \* local elapsed of each caller
    rl_wake,     \* earliest clock value at which time.Sleep returns
    rl_call,     \* history of the call in progress: when it started, if it slept
    rl_log,      \* history: one record per returned Wait call
    \* ---- enrichDetail called on its own
    e_listing,   \* the listing enrichDetail is called with
    e_page,      \* what the detail page gives to that call
    e_result,    \* the listing after the call
    \* ---- DataCleaner.Clean called on its own output
    recleaned,   \* <<>>, or <<Clean of the clean listings read as raw ones>>
    \* ---- InsightService.Generate called on its own
    report,      \* <<>>, or <<the InsightReport Generate returned>>
    \* ---- parsePrice / parseRating called on their own
    p_in,        \* how the text was put together (<<>>: no call)
    p_raw,       \* the raw text the function is called with
    p_ret,       \* <<>>, or <<the value returned>>
    \* ---- the pages
    site,        \* <<>>: any page may come; else the cards of each section's page
    pageStart,   \* <<>>, or <<len(collected) and seenURLs when the range loop
                 \* over the current page began>>
    \* ---- two runs of the program against the same site
    fetched,     \* history: <<>> (not kept), or <<the page loads of the run
                 \* so far, each with what the site answered>>
    prevRun      \* <<>>, or <<what the previous run did and returned>>

scrapeVars == <<pc, cfg, sections, secIdx, allListings, seenURLs, collected,
                currentURL, listings, nextURL, idx, secFailed,
                secResults, io, lastOp, discovery, deadline>>
mainVars   == <<csvErr, cleanListings, dbRows, dbRet, reported, exitCode>>
retryVars  == <<r_pc, attempt, lastErr, r_ret, r_calls, r_sleeps>>
dedupVars  == <<t_seen, t_mu, s_mu, w_pc, w_key, w_ret, w_obj, t_hist,
                t_count>>
rlVars     == <<now, rl_lastCall, rl_delay, rl_mu, rl_pc, rl_elapsed,
                rl_wake, rl_call, rl_log>>
enrichVars == <<e_listing, e_page, e_result>>
cleanerVars == <<recleaned, report>>
parseVars == <<p_in, p_raw, p_ret>>
pageVars == <<site, pageStart>>
runVars == <<fetched, prevRun>>
vars == <<scrapeVars, mainVars, retryVars, dedupVars, rlVars, enrichVars,
          cleanerVars, parseVars, pageVars, runVars>>

-----------------------------------------------------------------------------
(* Bounds of the model *)

MaxQuota == 2
MaxRetriesBound == 2
MaxCards == 2
MaxSections == 2
MaxAttempts == 3
MaxAdds == 4
MaxWorkers == 2
MaxRaces == 3
MaxTime == 5
MaxDelay == 2
MaxWaits == 3

\* The last outbound operation after a step that performed ops.
LastOp(prev, ops) == IF ops = <<>> THEN prev ELSE ops[Len(ops)]

\* The context deadline has not expired.
NoDeadline == [expired |-> FALSE, completed |-> 0, begun |-> 0]

\* chromedp.Run(ctx, ...) can succeed only while the deadline of ctx has
\* not expired.
CanLoad(d) == ~d.expired

\* main has not gone past the call of Scrape.
MainIdle ==
    /\ csvErr = FALSE
    /\ cleanListings = <<>>
    /\ dbRows = <<>>
    /\ dbRet = [err |-> FALSE, inserted |-> 0, skipped |-> 0]
    /\ reported = FALSE
    /\ exitCode = <<>>
    /\ recleaned = <<>>
    /\ report = <<>>

\* The n-th smallest element of a set of positions.
NthOf(S, n) == CHOOSE i \in S : Cardinality({j \in S : j < i}) = n - 1

Max(a, b) == IF a >= b THEN a ELSE b
Min(a, b) == IF a <= b THEN a ELSE b

\* getEnvInt accepts any integer, so negative and zero settings are inputs,
\* next to the smallest positive quota and the largest one of the bound.
Quotas == {-1, 0, 1, MaxQuota}
RetryCounts == {-1, 0, MaxRetriesBound}

-----------------------------------------------------------------------------
(* Strings that are inspected character by character are sequences of      *)
(* one-character strings.                                                   *)

Lower(c) ==
    CASE c = "L" -> "l" [] c = "O" -> "o" [] c = "F" -> "f" [] c = "T" -> "t"
      [] c = "A" -> "a"
      [] OTHER -> c

RECURSIVE TrimLeft(_)
TrimLeft(s) == IF s # <<>> /\ Head(s) = " " THEN TrimLeft(Tail(s)) ELSE s

RECURSIVE TrimRight(_)
TrimRight(s) ==
    IF s # <<>> /\ s[Len(s)] = " " THEN TrimRight(SubSeq(s, 1, Len(s) - 1)) ELSE s

TrimSpace(s) == TrimRight(TrimLeft(s))

EqualFold(a, b) ==
    /\ Len(a) = Len(b)
    /\ \A i \in 1 .. Len(a) : Lower(a[i]) = Lower(b[i])

-----------------------------------------------------------------------------
(* The pages the browser can return *)

NoTitle == <<>>
Titles == {NoTitle, <<"L", "o", "f", "t">>}
URLs == {"", "/rooms/1", "/rooms/2"}
NextURLs == {"", "/s/next"}
DescCandidates == {<<>>, <<"L", "O", "F", "T">>}

\* The card extraction keeps a card only if it has a title or a url.
Cards ==
    {c \in [Title : Titles, URL : URLs, Location : {""}] :
        /\ c.Title # NoTitle \/ c.URL # ""
        /\ c.Title = NoTitle <=> c.URL = "/rooms/2"}

\* A card without a location gets the name of the section.
RawListing(c, sectionName) ==
    [Title |-> c.Title, URL |-> c.URL,
     Location |-> IF c.Location = "" THEN sectionName ELSE c.Location,
     Description |-> <<>>]

SeqsUpTo(S, n) == UNION {[1 .. k -> S] : k \in 0 .. n}

\* The result pages: without a card, with one card, and with as many
\* cards as the bound allows.
CardPages == UNION {[1 .. k -> Cards] : k \in {0, 1, MaxCards}}

\* The card lists the page of section i can hold.  A site whose pages are
\* not fixed has listings for the first MaxSections sections of the list
\* that is crawled; a site whose pages are fixed has the cards of its
\* pages.  A result page of any other section loads without a card.
PagesOf(st, i) ==
    IF st = <<>> THEN (IF i <= MaxSections THEN CardPages ELSE {<<>>})
    ELSE IF i \in DOMAIN st THEN {st[i]} ELSE {<<>>}

fallbackSections ==
    << [Name |-> "Bangkok", URL |-> "/s/Bangkok--Thailand/homes"],
       [Name |-> "Kuala Lumpur", URL |-> "/s/Kuala-Lumpur--Malaysia/homes"],
       [Name |-> "Tokyo", URL |-> "/s/Tokyo--Japan/homes"],
       [Name |-> "Bali", URL |-> "/s/Bali--Indonesia/homes"],
       [Name |-> "Seoul", URL |-> "/s/Seoul--South-Korea/homes"],
       [Name |-> "Singapore", URL |-> "/s/Singapore/homes"],
       [Name |-> "Paris", URL |-> "/s/Paris--France/homes"],
       [Name |-> "New York", URL |-> "/s/New-York--NY--United-States/homes"],
       [Name |-> "London", URL |-> "/s/London--United-Kingdom/homes"],
       [Name |-> "Dubai", URL |-> "/s/Dubai--United-Arab-Emirates/homes"] >>

DiscoveredLists ==
    { <<>>,
      << [Name |-> "Popular homes in Dhaka", URL |-> "/s/Dhaka/homes"] >>,
      << [Name |-> "Popular homes in Dhaka", URL |-> "/s/Dhaka/homes"],
         [Name |-> "Stay in Sylhet", URL |-> "/s/Sylhet/homes"] >> }

-----------------------------------------------------------------------------
(* RetryWithBackoff (utils/retry.go), with the closure of scrapePage as fn  *)

\* A nil error value, and the nil return of RetryWithBackoff.
NoErr == [call |-> 0, msg |-> "nil"]
RetNil == [failed |-> FALSE, attempts |-> 0, wraps |-> NoErr]


\* Mutant: the first attempt is made whatever maxRetries is.
MoreAttemptsFirstAlways(a, maxRetries) == a = 0 \/ a < maxRetries

\* for attempt := 0; attempt < maxRetries; attempt++
MoreAttempts(a, maxRetries) == a < maxRetries

\* fmt.Errorf("all %d attempts failed, last error: %w", maxRetries, lastErr)
AllFailed(maxRetries, last) ==
    [failed |-> TRUE, attempts |-> maxRetries, wraps |-> last]

\* No call of RetryWithBackoff is in progress.
RetryIdle ==
    /\ r_pc = "idle"
    /\ attempt = 0
    /\ lastErr = NoErr
    /\ r_ret = RetNil
    /\ r_calls = <<>>
    /\ r_sleeps = <<>>

\* Mutant: only the first error is remembered.
RecordErrKeepsFirst(last, err) == IF last = NoErr THEN err ELSE last

\* lastErr = err
RecordErr(last, err) == err

\* Mutant: the backoff doubles instead of growing with the square.
BackoffDoubling(a) == 2 * a

\* backoff := time.Duration(attempt*attempt) * time.Second, in seconds
Backoff(a) == a * a

FnErrors == {"navigate failed", "JS extraction failed"}

\* cfg.AirbnbURL, the page discoverSections loads.
HomeURL == "/"

\* What the site answered to a page load: an error, or the section links,
\* the cards and next-page link (nextErr: the lookup of the link failed),
\* or the description the page held.
NoAnswer ==
    [err |-> "", sections |-> <<>>, cards |-> <<>>, next |-> "",
     nextErr |-> FALSE, desc |-> <<>>]

\* The log of page loads after one more load, where a log is kept.
Fetched(f, url, answer) ==
    IF f = <<>> THEN f ELSE <<Append(f[1], [req |-> url, resp |-> answer])>>

\* The name of the section scrapePage was called for.
SectionName ==
    IF secIdx \in 1 .. Len(sections) THEN sections[secIdx].Name ELSE ""

\* Loop head, first round: no sleep before attempt 0.
RetryFirst ==
    /\ r_pc = "loop"
    /\ MoreAttempts(attempt, cfg.MaxRetries)
    /\ ~(attempt > 0)
    /\ r_pc' = "call"
    /\ io' = <<>>
    /\ lastOp' = LastOp(lastOp, <<>>)
    /\ UNCHANGED <<attempt, lastErr, r_ret, r_calls, r_sleeps>>
    /\ UNCHANGED <<discovery, deadline>>
    /\ UNCHANGED <<pc, cfg, sections, secIdx, allListings, seenURLs, collected,
                   currentURL, listings, nextURL, idx, secFailed, secResults>>
    /\ UNCHANGED <<dedupVars, rlVars, mainVars, enrichVars, cleanerVars, parseVars, pageVars, runVars>>

\* Loop head, later rounds: sleep attempt*attempt seconds, then call fn.
RetrySleep ==
    /\ r_pc = "loop"
    /\ MoreAttempts(attempt, cfg.MaxRetries)
    /\ attempt > 0
    /\ r_sleeps' = Append(r_sleeps, Backoff(attempt))
    /\ r_pc' = "call"
    /\ io' = <<"Sleep">>
    /\ lastOp' = LastOp(lastOp, <<"Sleep">>)
    /\ UNCHANGED <<attempt, lastErr, r_ret, r_calls>>
    /\ UNCHANGED <<discovery, deadline>>
    /\ UNCHANGED <<pc, cfg, sections, secIdx, allListings, seenURLs, collected,
                   currentURL, listings, nextURL, idx, secFailed, secResults>>
    /\ UNCHANGED <<dedupVars, rlVars, mainVars, enrichVars, cleanerVars, parseVars, pageVars, runVars>>

\* The errors the closure can return, on any page of any section.  Once
\* the deadline of ctx has passed the navigation, its first chromedp.Run,
\* fails, so the extraction is not reached; before that either step can
\* fail.
ErrorsAt(d) ==
    IF ~CanLoad(d) THEN {"navigate failed"} ELSE FnErrors

\* fn fails: navigation error or card extraction error.
FnFail ==
    /\ r_pc = "call"
    /\ \E e \in ErrorsAt(deadline) :
          LET err == [call |-> Len(r_calls) + 1, msg |-> e] IN
          /\ lastErr' = RecordErr(lastErr, err)
          /\ r_calls' = Append(r_calls, err)
          /\ fetched' = Fetched(fetched, currentURL,
                                 [NoAnswer EXCEPT !.err = e])
    /\ attempt' = attempt + 1
    /\ r_pc' = "loop"
    /\ io' = <<"Navigate">>
    /\ lastOp' = LastOp(lastOp, <<"Navigate">>)
    /\ UNCHANGED <<r_ret, r_sleeps>>
    /\ UNCHANGED <<discovery, deadline>>
    /\ UNCHANGED <<pc, cfg, sections, secIdx, allListings, seenURLs, collected,
                   currentURL, listings, nextURL, idx, secFailed, secResults>>
    /\ UNCHANGED <<dedupVars, rlVars, mainVars, enrichVars, cleanerVars, parseVars, pageVars>>
    /\ UNCHANGED prevRun

\* var next string; _ = chromedp.Run(ctx, chromedp.Evaluate(..., &next)):
\* the error of the lookup is dropped and next keeps its zero value.
NextLink(found, lookupFailed) == IF lookupFailed THEN "" ELSE found

\* Mutant: a successful attempt does not leave the loop.
FnOkKeepsLooping ==
    /\ r_pc = "call"
    /\ CanLoad(deadline)
    /\ \E cards \in PagesOf(site, secIdx), found \in NextURLs,
          lookupFailed \in BOOLEAN :
          LET next == NextLink(found, lookupFailed) IN
          /\ listings' = [i \in 1 .. Len(cards) |->
                             RawListing(cards[i], SectionName)]
          /\ nextURL' = next
          /\ fetched' = Fetched(fetched, currentURL,
                         [NoAnswer EXCEPT !.cards = cards, !.next = next,
                                          !.nextErr = lookupFailed])
    /\ r_calls' = Append(r_calls, NoErr)
    /\ attempt' = attempt + 1
    /\ r_pc' = "loop"
    /\ io' = <<"Navigate">>
    /\ lastOp' = LastOp(lastOp, <<"Navigate">>)
    /\ UNCHANGED <<r_ret, lastErr, r_sleeps>>
    /\ UNCHANGED <<discovery, deadline>>
    /\ UNCHANGED <<pc, cfg, sections, secIdx, allListings, seenURLs, collected,
                   currentURL, idx, secFailed, secResults>>
    /\ UNCHANGED <<dedupVars, rlVars, mainVars, enrichVars, cleanerVars, parseVars, pageVars>>
    /\ UNCHANGED prevRun

\* fn succeeds: the cards become listings, the next-page link (or "" when
\* there is none or its lookup failed) becomes nextURL, and
\* RetryWithBackoff returns nil at once.
FnOk ==
    /\ r_pc = "call"
    /\ CanLoad(deadline)
    /\ \E cards \in PagesOf(site, secIdx), found \in NextURLs,
          lookupFailed \in BOOLEAN :
          LET next == NextLink(found, lookupFailed) IN
          /\ listings' = [i \in 1 .. Len(cards) |->
                             RawListing(cards[i], SectionName)]
          /\ nextURL' = next
          /\ fetched' = Fetched(fetched, currentURL,
                         [NoAnswer EXCEPT !.cards = cards, !.next = next,
                                          !.nextErr = lookupFailed])
    /\ r_calls' = Append(r_calls, NoErr)
    /\ r_ret' = RetNil
    /\ r_pc' = "returned"
    /\ io' = <<"Navigate">>
    /\ lastOp' = LastOp(lastOp, <<"Navigate">>)
    /\ UNCHANGED <<attempt, lastErr, r_sleeps>>
    /\ UNCHANGED <<discovery, deadline>>
    /\ UNCHANGED <<pc, cfg, sections, secIdx, allListings, seenURLs, collected,
                   currentURL, idx, secFailed, secResults>>
    /\ UNCHANGED <<dedupVars, rlVars, mainVars, enrichVars, cleanerVars, parseVars, pageVars>>
    /\ UNCHANGED prevRun

\* Loop exit: every attempt failed (or there was none to make).
RetryExhausted ==
    /\ r_pc = "loop"
    /\ ~MoreAttempts(attempt, cfg.MaxRetries)
    /\ r_ret' = AllFailed(cfg.MaxRetries, lastErr)
    /\ r_pc' = "returned"
    /\ io' = <<>>
    /\ lastOp' = LastOp(lastOp, <<>>)
    /\ UNCHANGED <<attempt, lastErr, r_calls, r_sleeps>>
    /\ UNCHANGED <<discovery, deadline>>
    /\ UNCHANGED <<pc, cfg, sections, secIdx, allListings, seenURLs, collected,
                   currentURL, listings, nextURL, idx, secFailed, secResults>>
    /\ UNCHANGED <<dedupVars, rlVars, mainVars, enrichVars, cleanerVars, parseVars, pageVars, runVars>>

RetryNext == RetryFirst \/ RetrySleep \/ FnFail \/ FnOk \/ RetryExhausted

-----------------------------------------------------------------------------
(* AirbnbScraper (scraper/airbnb/scraper.go)                                *)

(* RateLimiter.Wait and sync.Mutex, as the crawl uses them *)

\* Mutant: Lock never blocks.
CanLockAlways(mu) == TRUE

\* sync.Mutex.Lock returns only when the mutex is free.
CanLock(mu) == mu = "free"

\* Sub saturates: measured from the zero Time, more than any delay.
LongAgo == MaxDelay + MaxTime + 1

\* Mutant: the zero Time is taken for the origin of the clock.
ElapsedSinceOrigin(t, last) == IF last = <<>> THEN t ELSE t - last[1]

\* now.Sub(r.lastCall)
Elapsed(t, last) == IF last = <<>> THEN LongAgo ELSE t - last[1]

\* Mutant: the comparison is the wrong way round.
MustSleepInverted(elapsed, delay) == elapsed > delay

\* if elapsed < r.delay
MustSleep(elapsed, delay) == elapsed < delay

\* time.Sleep(r.delay - elapsed)
SleepFor(elapsed, delay) == delay - elapsed

RLStarted == Len(rl_log) + Cardinality({c \in DOMAIN rl_pc : rl_pc[c] # "idle"})

\* The name of the goroutine that crawls.
Crawler == "crawl"

\* Wait is entered by caller c.
EnterWait(c) ==
    /\ rl_pc[c] = "idle"
    /\ rl_call' = [rl_call EXCEPT ![c] =
                      [start |-> now, slept |-> FALSE, stamp |-> 0]]
    /\ rl_pc' = [rl_pc EXCEPT ![c] = "lock"]
    /\ UNCHANGED <<now, rl_lastCall, rl_delay, rl_mu, rl_elapsed, rl_wake, rl_log>>

\* Wait has returned to caller c (the log of the calls is the caller's).
LeaveWait(c) ==
    /\ rl_pc[c] = "return"
    /\ rl_call' = [rl_call EXCEPT ![c] =
                      [start |-> 0, slept |-> FALSE, stamp |-> 0]]
    /\ rl_elapsed' = [rl_elapsed EXCEPT ![c] = 0]
    /\ rl_wake' = [rl_wake EXCEPT ![c] = 0]
    /\ rl_pc' = [rl_pc EXCEPT ![c] = "idle"]
    /\ UNCHANGED <<now, rl_lastCall, rl_delay, rl_mu>>

\* A caller enters Wait.
WaitCall(c) ==
    /\ RLStarted < MaxWaits
    /\ EnterWait(c)
    /\ UNCHANGED <<scrapeVars, retryVars, dedupVars, mainVars, enrichVars, cleanerVars, parseVars, pageVars, runVars>>

\* Mutant: Wait does not take the mutex.
WaitLockNoMutex(c) ==
    /\ rl_pc[c] = "lock"
    /\ rl_mu' = c
    /\ rl_pc' = [rl_pc EXCEPT ![c] = "read"]
    /\ UNCHANGED <<now, rl_lastCall, rl_delay, rl_elapsed, rl_wake, rl_call, rl_log>>
    /\ UNCHANGED <<scrapeVars, retryVars, dedupVars, mainVars, enrichVars, cleanerVars, parseVars, pageVars, runVars>>

\* r.mu.Lock()
WaitLock(c) ==
    /\ rl_pc[c] = "lock"
    /\ CanLock(rl_mu)
    /\ rl_mu' = c
    /\ rl_pc' = [rl_pc EXCEPT ![c] = "read"]
    /\ UNCHANGED <<now, rl_lastCall, rl_delay, rl_elapsed, rl_wake, rl_call, rl_log>>
    /\ UNCHANGED <<scrapeVars, retryVars, dedupVars, mainVars, enrichVars, cleanerVars, parseVars, pageVars, runVars>>

\* now := time.Now(); elapsed := now.Sub(r.lastCall); if elapsed < r.delay
WaitRead(c) ==
    /\ rl_pc[c] = "read"
    /\ LET elapsed == Elapsed(now, rl_lastCall) IN
       /\ rl_elapsed' = [rl_elapsed EXCEPT ![c] = elapsed]
       /\ rl_pc' = [rl_pc EXCEPT ![c] =
                       IF MustSleep(elapsed, rl_delay) THEN "sleep" ELSE "stamp"]
    /\ UNCHANGED <<now, rl_lastCall, rl_delay, rl_mu, rl_wake, rl_call, rl_log>>
    /\ UNCHANGED <<scrapeVars, retryVars, dedupVars, mainVars, enrichVars, cleanerVars, parseVars, pageVars, runVars>>

\* time.Sleep(r.delay - elapsed) is called.
WaitSleep(c) ==
    /\ rl_pc[c] = "sleep"
    /\ rl_wake' = [rl_wake EXCEPT ![c] = now + SleepFor(rl_elapsed[c], rl_delay)]
    /\ rl_call' = [rl_call EXCEPT ![c].slept = TRUE]
    /\ rl_pc' = [rl_pc EXCEPT ![c] = "sleeping"]
    /\ UNCHANGED <<now, rl_lastCall, rl_delay, rl_mu, rl_elapsed, rl_log>>
    /\ UNCHANGED <<scrapeVars, retryVars, dedupVars, mainVars, enrichVars, cleanerVars, parseVars, pageVars, runVars>>

\* time.Sleep returns, at least the asked duration after it was called.
WaitWake(c) ==
    /\ rl_pc[c] = "sleeping"
    /\ now >= rl_wake[c]
    /\ rl_pc' = [rl_pc EXCEPT ![c] = "stamp"]
    /\ UNCHANGED <<now, rl_lastCall, rl_delay, rl_mu, rl_elapsed, rl_wake,
                   rl_call, rl_log>>
    /\ UNCHANGED <<scrapeVars, retryVars, dedupVars, mainVars, enrichVars, cleanerVars, parseVars, pageVars, runVars>>

\* r.lastCall = time.Now()
WaitStamp(c) ==
    /\ rl_pc[c] = "stamp"
    /\ rl_lastCall' = <<now>>
    /\ rl_pc' = [rl_pc EXCEPT ![c] = "unlock"]
    /\ UNCHANGED <<now, rl_delay, rl_mu, rl_elapsed, rl_wake, rl_call, rl_log>>
    /\ UNCHANGED <<scrapeVars, retryVars, dedupVars, mainVars, enrichVars, cleanerVars, parseVars, pageVars, runVars>>

\* defer r.mu.Unlock()
WaitUnlock(c) ==
    /\ rl_pc[c] = "unlock"
    /\ rl_mu' = "free"
    /\ rl_call' = [rl_call EXCEPT ![c].stamp = rl_lastCall[1]]
    /\ rl_pc' = [rl_pc EXCEPT ![c] = "return"]
    /\ UNCHANGED <<now, rl_lastCall, rl_delay, rl_elapsed, rl_wake, rl_log>>
    /\ UNCHANGED <<scrapeVars, retryVars, dedupVars, mainVars, enrichVars, cleanerVars, parseVars, pageVars, runVars>>

\* Wait returns to its caller.
WaitReturn(c) ==
    /\ LeaveWait(c)
    /\ rl_log' = Append(rl_log,
                        [caller |-> c, start |-> rl_call[c].start,
                         slept |-> rl_call[c].slept, stamp |-> rl_call[c].stamp,
                         ret |-> now])
    /\ UNCHANGED <<scrapeVars, retryVars, dedupVars, mainVars, enrichVars, cleanerVars, parseVars, pageVars, runVars>>

\* The steps of a Wait between its call and its return, for a limiter
\* whose delay has passed: Lock, the clock reading and the comparison,
\* the stamp, Unlock.
WaitSteps ==
    \/ \E c \in DOMAIN rl_pc : WaitLock(c)
    \/ \E c \in DOMAIN rl_pc : WaitRead(c)
    \/ \E c \in DOMAIN rl_pc : WaitStamp(c)
    \/ \E c \in DOMAIN rl_pc : WaitUnlock(c)

\* discoverSections drops raw entries without a name or a url.
KeepNamed(raw) == SelectSeq(raw, LAMBDA r : r.Name # "" /\ r.URL # "")

RawSectionLists ==
    DiscoveredLists \cup
    { << [Name |-> "", URL |-> "/s/Dhaka/homes"] >>,
      << [Name |-> "", URL |-> "/s/Dhaka/homes"],
         [Name |-> "Stay in Sylhet", URL |-> "/s/Sylhet/homes"] >> }

\* Mutant: the fallback list is used only when discovery returned an error.
ChooseSectionsOnError(failed, found) ==
    IF failed THEN fallbackSections ELSE found

\* Scrape: if err != nil || len(sections) == 0 { sections = fallbackSections() }
ChooseSections(failed, found) ==
    IF failed \/ Len(found) = 0 THEN fallbackSections ELSE found

\* How discoverSections ended: with an error (the homepage did not load),
\* with no section, or with sections.
DiscoveryOutcome(failed, found) ==
    IF failed THEN "failed" ELSE IF Len(found) = 0 THEN "empty" ELSE "found"

\* The number of sections whose crawl has begun.
SectionsBegun ==
    IF pc \in {"start", "range_sections"} THEN secIdx - 1 ELSE secIdx

\* context.WithTimeout(ctx, 30*time.Minute): the deadline expires while
\* Scrape is running.
Expire ==
    /\ pc \in {"start", "range_sections", "section_wait", "page_loop",
               "scrapePage", "filter", "enrich_wait", "enrich", "paginate",
               "page_wait", "return_section"}
    /\ ~deadline.expired
    /\ deadline' = [expired |-> TRUE, completed |-> Len(secResults),
                    begun |-> SectionsBegun]
    /\ io' = <<>>
    /\ UNCHANGED <<pc, cfg, sections, secIdx, allListings, seenURLs, collected,
                   currentURL, listings, nextURL, idx, secFailed, secResults,
                   lastOp, discovery>>
    /\ UNCHANGED <<retryVars, dedupVars, rlVars, mainVars, enrichVars, cleanerVars, parseVars, pageVars, runVars>>

\* Scrape, step 1: load the homepage and discover the sections.
Discover ==
    /\ pc = "start"
    /\ \E failed \in BOOLEAN, raw \in RawSectionLists :
          /\ ~CanLoad(deadline) => failed
          /\ sections' = ChooseSections(failed, KeepNamed(raw))
          /\ discovery' = DiscoveryOutcome(failed, KeepNamed(raw))
          /\ fetched' = Fetched(fetched, HomeURL,
                         [NoAnswer EXCEPT !.err = IF failed THEN "failed" ELSE "",
                                          !.sections = IF failed THEN <<>>
                                                          ELSE raw])
    /\ secIdx' = 1
    /\ allListings' = <<>>
    /\ pc' = "range_sections"
    /\ io' = <<"Navigate">>
    /\ lastOp' = LastOp(lastOp, <<"Navigate">>)
    /\ UNCHANGED <<deadline>>
    /\ UNCHANGED <<cfg, seenURLs, collected, currentURL, listings,
                   nextURL, idx, secFailed, secResults>>
    /\ UNCHANGED <<retryVars, dedupVars, rlVars, mainVars, enrichVars, cleanerVars, parseVars, pageVars>>
    /\ UNCHANGED prevRun

\* Scrape, step 2: next round of the range loop: s.rateLimiter.Wait() is
\* called.
NextSection ==
    /\ pc = "range_sections"
    /\ secIdx <= Len(sections)
    /\ EnterWait(Crawler)
    /\ pc' = "section_wait"
    /\ io' = <<"Wait">>
    /\ lastOp' = LastOp(lastOp, <<"Wait">>)
    /\ UNCHANGED <<discovery, deadline, rl_log>>
    /\ UNCHANGED <<cfg, sections, secIdx, allListings, seenURLs, collected,
                   currentURL, listings, nextURL, idx, secFailed, secResults>>
    /\ UNCHANGED <<retryVars, dedupVars, mainVars, enrichVars, cleanerVars, parseVars, pageVars, runVars>>

\* Wait has returned: scrapeSection is called and sets its locals.
EnterSection ==
    /\ pc = "section_wait"
    /\ LeaveWait(Crawler)
    /\ collected' = <<>>
    /\ currentURL' = sections[secIdx].URL
    /\ secFailed' = FALSE
    /\ pc' = "page_loop"
    /\ io' = <<>>
    /\ lastOp' = LastOp(lastOp, <<>>)
    /\ UNCHANGED <<discovery, deadline, rl_log>>
    /\ UNCHANGED <<cfg, sections, secIdx, allListings, seenURLs, listings,
                   nextURL, idx, secResults>>
    /\ UNCHANGED <<retryVars, dedupVars, mainVars, enrichVars, cleanerVars, parseVars, pageVars, runVars>>

\* Mutant: after the deadline Scrape returns no listings.
ScrapeDoneDropsOnExpiry ==
    /\ pc = "range_sections"
    /\ secIdx > Len(sections)
    /\ allListings' = IF deadline.expired THEN <<>> ELSE allListings
    /\ pc' = "done"
    /\ io' = <<>>
    /\ UNCHANGED <<cfg, sections, secIdx, seenURLs, collected, currentURL,
                   listings, nextURL, idx, secFailed, secResults, lastOp,
                   discovery, deadline>>
    /\ UNCHANGED <<retryVars, dedupVars, rlVars, mainVars, enrichVars, cleanerVars, parseVars, pageVars, runVars>>

\* Scrape: the range loop is over; allListings is returned with a nil error.
ScrapeDone ==
    /\ pc = "range_sections"
    /\ secIdx > Len(sections)
    /\ pc' = "done"
    /\ io' = <<>>
    /\ lastOp' = LastOp(lastOp, <<>>)
    /\ UNCHANGED <<discovery, deadline>>
    /\ UNCHANGED <<cfg, sections, secIdx, allListings, seenURLs, collected,
                   currentURL, listings, nextURL, idx, secFailed,
                   secResults>>
    /\ UNCHANGED <<retryVars, dedupVars, rlVars, mainVars, enrichVars, cleanerVars, parseVars, pageVars, runVars>>

\* Mutant: every one of MaxConcurrency workers may fill the quota.
QuotaReachedPerWorker(n, quota) == n >= quota * cfg.MaxConcurrency

\* Mutant: the quota test is off by one.
QuotaReachedOffByOne(n, quota) == n > quota

\* len(collected) >= s.cfg.PropertiesPerPage
QuotaReached(n, quota) == n >= quota

\* scrapeSection, loop head with the condition true: call scrapePage,
\* which starts RetryWithBackoff.
PageLoopEnter ==
    /\ pc = "page_loop"
    /\ ~QuotaReached(Len(collected), cfg.PropertiesPerPage)
    /\ listings' = <<>>
    /\ nextURL' = ""
    /\ r_pc' = "loop"
    /\ attempt' = 0
    /\ lastErr' = NoErr
    /\ r_ret' = RetNil
    /\ r_calls' = <<>>
    /\ r_sleeps' = <<>>
    /\ pc' = "scrapePage"
    /\ io' = <<>>
    /\ lastOp' = LastOp(lastOp, <<>>)
    /\ UNCHANGED <<discovery, deadline>>
    /\ UNCHANGED <<cfg, sections, secIdx, allListings, seenURLs, collected,
                   currentURL, idx, secFailed, secResults>>
    /\ UNCHANGED <<dedupVars, rlVars, mainVars, enrichVars, cleanerVars, parseVars, pageVars, runVars>>

\* scrapeSection, loop head with the condition false.
PageLoopExit ==
    /\ pc = "page_loop"
    /\ QuotaReached(Len(collected), cfg.PropertiesPerPage)
    /\ pc' = "return_section"
    /\ io' = <<>>
    /\ lastOp' = LastOp(lastOp, <<>>)
    /\ UNCHANGED <<discovery, deadline>>
    /\ UNCHANGED <<cfg, sections, secIdx, allListings, seenURLs, collected,
                   currentURL, listings, nextURL, idx, secFailed,
                   secResults>>
    /\ UNCHANGED <<retryVars, dedupVars, rlVars, mainVars, enrichVars, cleanerVars, parseVars, pageVars, runVars>>

\* scrapePage returned an error: break.
PageError ==
    /\ pc = "scrapePage"
    /\ r_pc = "returned"
    /\ r_ret.failed
    /\ secFailed' = TRUE
    /\ r_pc' = "idle"
    /\ attempt' = 0
    /\ lastErr' = NoErr
    /\ r_ret' = RetNil
    /\ r_calls' = <<>>
    /\ r_sleeps' = <<>>
    /\ pc' = "return_section"
    /\ io' = <<>>
    /\ lastOp' = LastOp(lastOp, <<>>)
    /\ UNCHANGED <<discovery, deadline>>
    /\ UNCHANGED <<cfg, sections, secIdx, allListings, seenURLs, collected,
                   currentURL, listings, nextURL, idx, secResults>>
    /\ UNCHANGED <<dedupVars, rlVars, mainVars, enrichVars, cleanerVars, parseVars, pageVars, runVars>>

\* Mutant: a page without listings is loaded again.
PageEmptyRetries ==
    /\ pc = "scrapePage"
    /\ r_pc = "returned"
    /\ ~r_ret.failed
    /\ Len(listings) = 0
    /\ attempt' = attempt + 1
    /\ r_pc' = "loop"
    /\ io' = <<>>
    /\ lastOp' = LastOp(lastOp, <<>>)
    /\ UNCHANGED <<lastErr, r_ret, r_calls, r_sleeps>>
    /\ UNCHANGED <<discovery, deadline>>
    /\ UNCHANGED <<pc, cfg, sections, secIdx, allListings, seenURLs, collected,
                   currentURL, listings, nextURL, idx, secFailed, secResults>>
    /\ UNCHANGED <<dedupVars, rlVars, mainVars, enrichVars, cleanerVars, parseVars, pageVars, runVars>>

\* scrapePage returned no listings: break.
PageEmpty ==
    /\ pc = "scrapePage"
    /\ r_pc = "returned"
    /\ ~r_ret.failed
    /\ Len(listings) = 0
    /\ secFailed' = TRUE
    /\ r_pc' = "idle"
    /\ attempt' = 0
    /\ lastErr' = NoErr
    /\ r_ret' = RetNil
    /\ r_calls' = <<>>
    /\ r_sleeps' = <<>>
    /\ pc' = "return_section"
    /\ io' = <<>>
    /\ lastOp' = LastOp(lastOp, <<>>)
    /\ UNCHANGED <<discovery, deadline>>
    /\ UNCHANGED <<cfg, sections, secIdx, allListings, seenURLs, collected,
                   currentURL, listings, nextURL, idx, secResults>>
    /\ UNCHANGED <<dedupVars, rlVars, mainVars, enrichVars, cleanerVars, parseVars, pageVars, runVars>>

\* scrapePage returned listings: start the range loop over them.
PageOk ==
    /\ pc = "scrapePage"
    /\ r_pc = "returned"
    /\ ~r_ret.failed
    /\ Len(listings) # 0
    /\ idx' = 1
    /\ r_pc' = "idle"
    /\ attempt' = 0
    /\ lastErr' = NoErr
    /\ r_ret' = RetNil
    /\ r_calls' = <<>>
    /\ r_sleeps' = <<>>
    /\ pc' = "filter"
    /\ io' = <<>>
    /\ lastOp' = LastOp(lastOp, <<>>)
    /\ UNCHANGED <<discovery, deadline>>
    /\ UNCHANGED <<cfg, sections, secIdx, allListings, seenURLs, collected,
                   currentURL, listings, nextURL, secFailed, secResults>>
    /\ UNCHANGED <<dedupVars, rlVars, mainVars, enrichVars, cleanerVars, parseVars>>
    /\ UNCHANGED <<site, runVars>>
    /\ pageStart' = <<[n |-> Len(collected), seen |-> seenURLs]>>

\* What the detail page gives: a navigation/evaluation error, or the text
\* of the description element ("" when there is none).
EnrichOutcomes ==
    {[err |-> TRUE, desc |-> <<>>]} \cup
    {[err |-> FALSE, desc |-> d] : d \in DescCandidates}

\* Mutant: the candidate and the title are compared as they are, untrimmed.
enrichDetailUntrimmed(l, out) ==
    IF l.URL = "" THEN l
    ELSE IF out.err THEN l
    ELSE IF out.desc # <<>> /\ ~EqualFold(out.desc, l.Title)
         THEN [l EXCEPT !.Description = out.desc]
         ELSE l

\* enrichDetail: the listing after the call.
enrichDetail(l, out) ==
    IF l.URL = "" THEN l
    ELSE IF out.err THEN l
    ELSE IF out.desc # <<>>
            /\ ~EqualFold(TrimSpace(out.desc), TrimSpace(l.Title))
         THEN [l EXCEPT !.Description = out.desc]
         ELSE l

\* Mutant: a listing without url is sent to enrichDetail too.
NeedsEnrichWithoutURL(l) == l.Description = <<>>

\* if l.Description == "" && l.URL != ""
NeedsEnrich(l) == l.Description = <<>> /\ l.URL # ""

\* Mutant: a listing without a url is never taken for a duplicate.
IsSeenUnlessEmpty(seen, url) == url # "" /\ url \in seen

\* Mutant: no url is ever found in the map.
IsSeenNever(seen, url) == FALSE

\* s.seenURLs[l.URL]
IsSeen(seen, url) == url \in seen

\* Mutant: every listing of the page is marked at once.
MarkSeenWholePage(seen, url) ==
    seen \cup {listings[i].URL : i \in 1 .. Len(listings)}

\* Mutant: the url is not put in the map.
MarkSeenForgets(seen, url) == seen

\* s.seenURLs[l.URL] = true
MarkSeen(seen, url) == seen \cup {url}

\* The range loop over listings has no element left.
FilterEnd ==
    /\ pc = "filter"
    /\ idx > Len(listings)
    /\ pc' = "paginate"
    /\ io' = <<>>
    /\ lastOp' = LastOp(lastOp, <<>>)
    /\ UNCHANGED <<discovery, deadline>>
    /\ UNCHANGED <<cfg, sections, secIdx, allListings, seenURLs, collected,
                   currentURL, listings, nextURL, idx, secFailed,
                   secResults>>
    /\ UNCHANGED <<retryVars, dedupVars, rlVars, mainVars, enrichVars, cleanerVars, parseVars, pageVars, runVars>>

\* Range loop body: the quota is reached: break.
FilterQuotaBreak ==
    /\ pc = "filter"
    /\ idx <= Len(listings)
    /\ QuotaReached(Len(collected), cfg.PropertiesPerPage)
    /\ pc' = "paginate"
    /\ io' = <<>>
    /\ lastOp' = LastOp(lastOp, <<>>)
    /\ UNCHANGED <<discovery, deadline>>
    /\ UNCHANGED <<cfg, sections, secIdx, allListings, seenURLs, collected,
                   currentURL, listings, nextURL, idx, secFailed,
                   secResults>>
    /\ UNCHANGED <<retryVars, dedupVars, rlVars, mainVars, enrichVars, cleanerVars, parseVars, pageVars, runVars>>

\* Mutant: a listing whose url was seen before is appended all the same.
FilterDuplicateKeeps ==
    /\ pc = "filter"
    /\ idx <= Len(listings)
    /\ ~QuotaReached(Len(collected), cfg.PropertiesPerPage)
    /\ IsSeen(seenURLs, listings[idx].URL)
    /\ collected' = Append(collected, listings[idx])
    /\ idx' = idx + 1
    /\ io' = <<>>
    /\ lastOp' = LastOp(lastOp, <<>>)
    /\ UNCHANGED <<discovery, deadline>>
    /\ UNCHANGED <<pc, cfg, sections, secIdx, allListings, seenURLs,
                   currentURL, listings, nextURL, secFailed, secResults>>
    /\ UNCHANGED <<retryVars, dedupVars, rlVars, mainVars, enrichVars, cleanerVars, parseVars, pageVars, runVars>>

\* Range loop body: the url was seen before: continue.
FilterDuplicate ==
    /\ pc = "filter"
    /\ idx <= Len(listings)
    /\ ~QuotaReached(Len(collected), cfg.PropertiesPerPage)
    /\ IsSeen(seenURLs, listings[idx].URL)
    /\ idx' = idx + 1
    /\ io' = <<>>
    /\ lastOp' = LastOp(lastOp, <<>>)
    /\ UNCHANGED <<discovery, deadline>>
    /\ UNCHANGED <<pc, cfg, sections, secIdx, allListings, seenURLs, collected,
                   currentURL, listings, nextURL, secFailed, secResults>>
    /\ UNCHANGED <<retryVars, dedupVars, rlVars, mainVars, enrichVars, cleanerVars, parseVars, pageVars, runVars>>

\* Range loop body: a new url with a detail page: it is marked seen under
\* s.mu and the mutex is released.
FilterMark ==
    /\ pc = "filter"
    /\ idx <= Len(listings)
    /\ ~QuotaReached(Len(collected), cfg.PropertiesPerPage)
    /\ CanLock(s_mu)
    /\ ~IsSeen(seenURLs, listings[idx].URL)
    /\ NeedsEnrich(listings[idx])
    /\ seenURLs' = MarkSeen(seenURLs, listings[idx].URL)
    /\ pc' = "enrich_wait"
    /\ io' = <<>>
    /\ lastOp' = LastOp(lastOp, <<>>)
    /\ UNCHANGED <<discovery, deadline>>
    /\ UNCHANGED <<cfg, sections, secIdx, allListings, collected, currentURL,
                   listings, nextURL, idx, secFailed, secResults>>
    /\ UNCHANGED <<retryVars, dedupVars, rlVars, mainVars, enrichVars, cleanerVars, parseVars, pageVars, runVars>>

\* s.rateLimiter.Wait() is called before the detail page.
FilterWait ==
    /\ pc = "enrich_wait"
    /\ EnterWait(Crawler)
    /\ pc' = "enrich"
    /\ io' = <<"Wait">>
    /\ lastOp' = LastOp(lastOp, <<"Wait">>)
    /\ UNCHANGED <<discovery, deadline, rl_log>>
    /\ UNCHANGED <<cfg, sections, secIdx, allListings, seenURLs, collected,
                   currentURL, listings, nextURL, idx, secFailed, secResults>>
    /\ UNCHANGED <<retryVars, dedupVars, mainVars, enrichVars, cleanerVars, parseVars, pageVars, runVars>>

\* Mutant: a listing whose detail page failed to load is dropped.
FilterKeepEnrichDropsFailed ==
    /\ pc = "enrich"
    /\ LeaveWait(Crawler)
    /\ \E out \in EnrichOutcomes :
          /\ ~CanLoad(deadline) => out.err
          /\ fetched' = Fetched(fetched, listings[idx].URL,
                         [NoAnswer EXCEPT !.err = IF out.err THEN "failed" ELSE "",
                                          !.desc = out.desc])
          /\ collected' = IF out.err THEN collected
                          ELSE Append(collected, enrichDetail(listings[idx], out))
    /\ idx' = idx + 1
    /\ pc' = "filter"
    /\ io' = <<"Navigate">>
    /\ lastOp' = LastOp(lastOp, <<"Navigate">>)
    /\ UNCHANGED <<discovery, deadline, rl_log>>
    /\ UNCHANGED <<cfg, sections, secIdx, allListings, seenURLs, currentURL,
                   listings, nextURL, secFailed, secResults>>
    /\ UNCHANGED <<retryVars, dedupVars, mainVars, enrichVars, cleanerVars, parseVars, pageVars>>
    /\ UNCHANGED prevRun

\* Wait has returned: s.enrichDetail(ctx, l) loads the detail page, and
\* the listing is appended to collected whatever the load gave.
FilterKeepEnrich ==
    /\ pc = "enrich"
    /\ LeaveWait(Crawler)
    /\ \E out \in EnrichOutcomes :
          /\ ~CanLoad(deadline) => out.err
          /\ fetched' = Fetched(fetched, listings[idx].URL,
                         [NoAnswer EXCEPT !.err = IF out.err THEN "failed" ELSE "",
                                          !.desc = out.desc])
          /\ collected' = Append(collected, enrichDetail(listings[idx], out))
    /\ idx' = idx + 1
    /\ pc' = "filter"
    /\ io' = <<"Navigate">>
    /\ lastOp' = LastOp(lastOp, <<"Navigate">>)
    /\ UNCHANGED <<discovery, deadline, rl_log>>
    /\ UNCHANGED <<cfg, sections, secIdx, allListings, seenURLs, currentURL,
                   listings, nextURL, secFailed, secResults>>
    /\ UNCHANGED <<retryVars, dedupVars, mainVars, enrichVars, cleanerVars, parseVars, pageVars>>
    /\ UNCHANGED prevRun

\* Range loop body: a new url without a detail page: mark it seen, append.
FilterKeepPlain ==
    /\ pc = "filter"
    /\ idx <= Len(listings)
    /\ ~QuotaReached(Len(collected), cfg.PropertiesPerPage)
    /\ ~IsSeen(seenURLs, listings[idx].URL)
    /\ ~NeedsEnrich(listings[idx])
    /\ seenURLs' = MarkSeen(seenURLs, listings[idx].URL)
    /\ collected' = Append(collected, listings[idx])
    /\ idx' = idx + 1
    /\ io' = <<>>
    /\ lastOp' = LastOp(lastOp, <<>>)
    /\ UNCHANGED <<discovery, deadline>>
    /\ UNCHANGED <<pc, cfg, sections, secIdx, allListings, currentURL,
                   listings, nextURL, secFailed, secResults>>
    /\ UNCHANGED <<retryVars, dedupVars, rlVars, mainVars, enrichVars, cleanerVars, parseVars, pageVars, runVars>>

\* Mutant: pagination stops only when there is no next page.
StopPagingIgnoresQuota(n, quota, next) == next = ""

\* if len(collected) >= s.cfg.PropertiesPerPage || nextURL == "" { break }
StopPaging(n, quota, next) == QuotaReached(n, quota) \/ next = ""

\* After the range loop: break out of the page loop.
PaginateStop ==
    /\ pc = "paginate"
    /\ StopPaging(Len(collected), cfg.PropertiesPerPage, nextURL)
    /\ pc' = "return_section"
    /\ io' = <<>>
    /\ lastOp' = LastOp(lastOp, <<>>)
    /\ UNCHANGED <<discovery, deadline>>
    /\ UNCHANGED <<cfg, sections, secIdx, allListings, seenURLs, collected,
                   currentURL, listings, nextURL, idx, secFailed,
                   secResults>>
    /\ UNCHANGED <<retryVars, dedupVars, rlVars, mainVars, enrichVars, cleanerVars, parseVars>>
    /\ UNCHANGED <<site, runVars>>
    /\ pageStart' = <<>>

\* After the range loop: follow the next-page link and call
\* s.rateLimiter.Wait().
PaginateNext ==
    /\ pc = "paginate"
    /\ ~StopPaging(Len(collected), cfg.PropertiesPerPage, nextURL)
    /\ EnterWait(Crawler)
    /\ currentURL' = nextURL
    /\ pc' = "page_wait"
    /\ io' = <<"Wait">>
    /\ lastOp' = LastOp(lastOp, <<"Wait">>)
    /\ UNCHANGED <<discovery, deadline, rl_log>>
    /\ UNCHANGED <<cfg, sections, secIdx, allListings, seenURLs, collected,
                   listings, nextURL, idx, secFailed, secResults>>
    /\ UNCHANGED <<retryVars, dedupVars, mainVars, enrichVars, cleanerVars, parseVars>>
    /\ UNCHANGED <<site, runVars>>
    /\ pageStart' = <<>>

\* Wait has returned: back to the head of the page loop.
PaginateLoop ==
    /\ pc = "page_wait"
    /\ LeaveWait(Crawler)
    /\ pc' = "page_loop"
    /\ io' = <<>>
    /\ lastOp' = LastOp(lastOp, <<>>)
    /\ UNCHANGED <<discovery, deadline, rl_log>>
    /\ UNCHANGED <<cfg, sections, secIdx, allListings, seenURLs, collected,
                   currentURL, listings, nextURL, idx, secFailed, secResults>>
    /\ UNCHANGED <<retryVars, dedupVars, mainVars, enrichVars, cleanerVars, parseVars, pageVars, runVars>>

\* return collected, nil
scrapeSectionErr(failed) == FALSE

\* Mutant: a failed section ends the whole run.
ReturnSectionAborts ==
    /\ pc = "return_section"
    /\ allListings' = allListings \o collected
    /\ secResults' = Append(secResults,
                            [failed |-> secFailed, records |-> collected])
    /\ secIdx' = secIdx + 1
    /\ pc' = IF secFailed THEN "done" ELSE "range_sections"
    /\ io' = <<>>
    /\ lastOp' = LastOp(lastOp, <<>>)
    /\ collected' = <<>>
    /\ currentURL' = ""
    /\ listings' = <<>>
    /\ nextURL' = ""
    /\ idx' = 1
    /\ secFailed' = FALSE
    /\ UNCHANGED <<discovery, deadline>>
    /\ UNCHANGED <<cfg, sections, seenURLs>>
    /\ UNCHANGED <<retryVars, dedupVars, rlVars, mainVars, enrichVars, cleanerVars, parseVars, pageVars, runVars>>

\* scrapeSection returns; Scrape skips the section on an error and appends
\* its listings otherwise, then moves to the next section.
ReturnSection ==
    /\ pc = "return_section"
    /\ allListings' = IF scrapeSectionErr(secFailed)
                      THEN allListings
                      ELSE allListings \o collected
    /\ secResults' = Append(secResults,
                            [failed |-> secFailed, records |-> collected])
    /\ secIdx' = secIdx + 1
    /\ pc' = "range_sections"
    /\ io' = <<>>
    /\ lastOp' = LastOp(lastOp, <<>>)
    /\ collected' = <<>>
    /\ currentURL' = ""
    /\ listings' = <<>>
    /\ nextURL' = ""
    /\ idx' = 1
    /\ secFailed' = FALSE
    /\ UNCHANGED <<discovery, deadline>>
    /\ UNCHANGED <<cfg, sections, seenURLs>>
    /\ UNCHANGED <<retryVars, dedupVars, rlVars, mainVars, enrichVars, cleanerVars, parseVars, pageVars, runVars>>

-----------------------------------------------------------------------------
(* main (main.go) after Scrape has returned: the CSV file, the cleaner,    *)
(* PostgreSQL and the report.  Strings that are only trimmed or cut are    *)
(* TLA+ strings.                                                           *)

RECURSIVE StrTrimLeft(_)
StrTrimLeft(s) ==
    IF Len(s) > 0 /\ SubSeq(s, 1, 1) = " " THEN StrTrimLeft(SubSeq(s, 2, Len(s)))
    ELSE s

RECURSIVE StrTrimRight(_)
StrTrimRight(s) ==
    IF Len(s) > 0 /\ SubSeq(s, Len(s), Len(s)) = " "
    THEN StrTrimRight(SubSeq(s, 1, Len(s) - 1))
    ELSE s

\* strings.TrimSpace on a string
StrTrimSpace(s) == StrTrimRight(StrTrimLeft(s))

\* strings.LastIndex(s, sub) for i = Len(s) - Len(sub): the 0-based index of
\* the last occurrence starting at or before i, or -1.
RECURSIVE LastIndexFrom(_, _, _)
LastIndexFrom(s, sub, i) ==
    IF i < 0 THEN -1
    ELSE IF SubSeq(s, i + 1, i + Len(sub)) = sub THEN i
    ELSE LastIndexFrom(s, sub, i - 1)

LastIndex(s, sub) == LastIndexFrom(s, sub, Len(s) - Len(sub))

\* cleanLocation: trim, then drop a prefix such as "Condo in ".
cleanLocation(loc) ==
    LET t == StrTrimSpace(loc)
        i == LastIndex(t, " in ")
    IN  IF i # -1 /\ i < 30 THEN SubSeq(t, i + 5, Len(t)) ELSE t

\* Clean: the fields of the clean Listing that the crawl model carries.
CleanListing(r) ==
    [Title |-> TrimSpace(r.Title), URL |-> StrTrimSpace(r.URL),
     Location |-> cleanLocation(r.Location),
     Description |-> TrimSpace(r.Description)]

\* A title as one string.
RECURSIVE SeqToStr(_)
SeqToStr(t) == IF t = <<>> THEN "" ELSE Head(t) \o SeqToStr(Tail(t))

\* Mutant: the key is taken from the url and the fields as they are.
CleanKeyUntrimmed(r) ==
    IF r.URL # "" THEN r.URL
    ELSE SeqToStr(r.Title) \o "|" \o r.Location

\* Clean: key := TrimSpace(URL), or TrimSpace(Title) + "|" +
\* TrimSpace(Location) when that is empty.
CleanKey(r) ==
    IF StrTrimSpace(r.URL) # "" THEN StrTrimSpace(r.URL)
    ELSE SeqToStr(TrimSpace(r.Title)) \o "|" \o StrTrimSpace(r.Location)

\* Clean, the loop over raw: records with a blank title are skipped; the
\* others are kept unless their key is in the map seen, and put in it.
RECURSIVE CleanFrom(_, _, _)
CleanFrom(raw, seen, cleaned) ==
    IF raw = <<>> THEN cleaned
    ELSE
      LET r == Head(raw)
      IN  IF TrimSpace(r.Title) = <<>> \/ CleanKey(r) \in seen
          THEN CleanFrom(Tail(raw), seen, cleaned)
          ELSE CleanFrom(Tail(raw), seen \cup {CleanKey(r)},
                         Append(cleaned, CleanListing(r)))

Clean(raw) == CleanFrom(raw, {}, <<>>)

\* What the database does during one BatchInsert of n rows.  The writer
\* talks to PostgreSQL through lib/pq (interfaces.go 27): a statement that
\* fails aborts the transaction, every later Exec of the transaction fails
\* too, and Commit of an aborted transaction returns an error.
DbOutcomes(n) ==
    {o \in [begin : BOOLEAN, prepare : BOOLEAN,
            failedRows : {k .. n : k \in 1 .. n + 1}, commit : BOOLEAN] :
        o.failedRows # {} => ~o.commit}

\* BatchInsert: nil for no rows; an error when Begin, Prepare or Commit
\* fails; a row whose Exec fails is logged and skipped.
BatchInsert(rows, out) ==
    IF Len(rows) = 0 THEN [err |-> FALSE, inserted |-> 0, skipped |-> 0]
    ELSE IF ~out.begin \/ ~out.prepare
         THEN [err |-> TRUE, inserted |-> 0, skipped |-> 0]
    ELSE IF ~out.commit
         THEN [err |-> TRUE, inserted |-> 0,
               skipped |-> Cardinality(out.failedRows)]
    ELSE [err |-> FALSE,
          inserted |-> Len(rows) - Cardinality(out.failedRows),
          skipped |-> Cardinality(out.failedRows)]

\* Scrape returns allListings, nil.
ScrapeErr == FALSE

\* main: storage.NewPostgresWriter; when the database cannot be reached
\* the error is logged and the process ends with os.Exit(1).
MainConnect ==
    /\ pc = "connect"
    /\ \E failed \in BOOLEAN :
          /\ exitCode' = IF failed THEN <<1>> ELSE exitCode
          /\ pc' = IF failed THEN "exited" ELSE "create_table"
    /\ io' = <<>>
    /\ UNCHANGED <<csvErr, cleanListings, dbRows, dbRet, reported>>
    /\ UNCHANGED <<cfg, sections, secIdx, allListings, seenURLs, collected,
                   currentURL, listings, nextURL, idx, secFailed, secResults,
                   lastOp, discovery, deadline>>
    /\ UNCHANGED <<retryVars, dedupVars, rlVars, enrichVars, cleanerVars, parseVars, pageVars, runVars>>

\* main: pgWriter.CreateTable; its failure ends the process with
\* os.Exit(1), else NewAirbnbScraper and Scrape follow.
MainCreateTable ==
    /\ pc = "create_table"
    /\ \E failed \in BOOLEAN :
          /\ exitCode' = IF failed THEN <<1>> ELSE exitCode
          /\ pc' = IF failed THEN "exited" ELSE "start"
    /\ io' = <<>>
    /\ UNCHANGED <<csvErr, cleanListings, dbRows, dbRet, reported>>
    /\ UNCHANGED <<cfg, sections, secIdx, allListings, seenURLs, collected,
                   currentURL, listings, nextURL, idx, secFailed, secResults,
                   lastOp, discovery, deadline>>
    /\ UNCHANGED <<retryVars, dedupVars, rlVars, enrichVars, cleanerVars, parseVars, pageVars, runVars>>

\* main: no listing was scraped: a warning, then os.Exit(0).
MainNoListings ==
    /\ pc = "done"
    /\ ~ScrapeErr
    /\ Len(allListings) = 0
    /\ exitCode' = <<0>>
    /\ pc' = "exited"
    /\ io' = <<>>
    /\ UNCHANGED <<csvErr, cleanListings, dbRows, dbRet, reported>>
    /\ UNCHANGED <<cfg, sections, secIdx, allListings, seenURLs, collected,
                   currentURL, listings, nextURL, idx, secFailed, secResults,
                   lastOp, discovery, deadline>>
    /\ UNCHANGED <<retryVars, dedupVars, rlVars, enrichVars, cleanerVars, parseVars, pageVars, runVars>>

\* Mutant: a failed CSV write ends the run with status 1.
MainWriteCsvFatal ==
    /\ pc = "done"
    /\ ~ScrapeErr
    /\ Len(allListings) # 0
    /\ \E failed \in BOOLEAN :
          /\ csvErr' = failed
          /\ exitCode' = IF failed THEN <<1>> ELSE exitCode
          /\ pc' = IF failed THEN "exited" ELSE "clean"
    /\ io' = <<>>
    /\ UNCHANGED <<cleanListings, dbRows, dbRet, reported>>
    /\ UNCHANGED <<cfg, sections, secIdx, allListings, seenURLs, collected,
                   currentURL, listings, nextURL, idx, secFailed, secResults,
                   lastOp, discovery, deadline>>
    /\ UNCHANGED <<retryVars, dedupVars, rlVars, enrichVars, cleanerVars, parseVars, pageVars, runVars>>

\* main: WriteRawListings; its failure is logged and the run goes on.
MainWriteCsv ==
    /\ pc = "done"
    /\ ~ScrapeErr
    /\ Len(allListings) # 0
    /\ \E failed \in BOOLEAN : csvErr' = failed
    /\ pc' = "clean"
    /\ io' = <<>>
    /\ UNCHANGED <<cleanListings, dbRows, dbRet, reported, exitCode>>
    /\ UNCHANGED <<cfg, sections, secIdx, allListings, seenURLs, collected,
                   currentURL, listings, nextURL, idx, secFailed, secResults,
                   lastOp, discovery, deadline>>
    /\ UNCHANGED <<retryVars, dedupVars, rlVars, enrichVars, cleanerVars, parseVars, pageVars, runVars>>

\* main: cleanListings := cleaner.Clean(rawListings)
MainClean ==
    /\ pc = "clean"
    /\ cleanListings' = Clean(allListings)
    /\ pc' = "insert"
    /\ io' = <<>>
    /\ UNCHANGED <<csvErr, dbRows, dbRet, reported, exitCode>>
    /\ UNCHANGED <<cfg, sections, secIdx, allListings, seenURLs, collected,
                   currentURL, listings, nextURL, idx, secFailed, secResults,
                   lastOp, discovery, deadline>>
    /\ UNCHANGED <<retryVars, dedupVars, rlVars, enrichVars, cleanerVars, parseVars, pageVars, runVars>>

\* main: pgWriter.BatchInsert(cleanListings)
MainInsert ==
    /\ pc = "insert"
    /\ dbRows' = <<cleanListings>>
    /\ \E out \in DbOutcomes(Len(cleanListings)) :
          dbRet' = BatchInsert(cleanListings, out)
    /\ pc' = "inserted"
    /\ io' = <<>>
    /\ UNCHANGED <<csvErr, cleanListings, reported, exitCode>>
    /\ UNCHANGED <<cfg, sections, secIdx, allListings, seenURLs, collected,
                   currentURL, listings, nextURL, idx, secFailed, secResults,
                   lastOp, discovery, deadline>>
    /\ UNCHANGED <<retryVars, dedupVars, rlVars, enrichVars, cleanerVars, parseVars, pageVars, runVars>>

\* Mutant: an error of BatchInsert is logged and the run goes on.
MainInsertFailedGoesOn ==
    /\ pc = "inserted"
    /\ dbRet.err
    /\ reported' = TRUE
    /\ exitCode' = <<0>>
    /\ pc' = "exited"
    /\ io' = <<>>
    /\ UNCHANGED <<csvErr, cleanListings, dbRows, dbRet>>
    /\ UNCHANGED <<cfg, sections, secIdx, allListings, seenURLs, collected,
                   currentURL, listings, nextURL, idx, secFailed, secResults,
                   lastOp, discovery, deadline>>
    /\ UNCHANGED <<retryVars, dedupVars, rlVars, enrichVars, cleanerVars, parseVars, pageVars, runVars>>

\* main: BatchInsert returned an error: os.Exit(1).
MainInsertFailed ==
    /\ pc = "inserted"
    /\ dbRet.err
    /\ exitCode' = <<1>>
    /\ pc' = "exited"
    /\ io' = <<>>
    /\ UNCHANGED <<csvErr, cleanListings, dbRows, dbRet, reported>>
    /\ UNCHANGED <<cfg, sections, secIdx, allListings, seenURLs, collected,
                   currentURL, listings, nextURL, idx, secFailed, secResults,
                   lastOp, discovery, deadline>>
    /\ UNCHANGED <<retryVars, dedupVars, rlVars, enrichVars, cleanerVars, parseVars, pageVars, runVars>>

\* main: the report is generated and printed, and main returns.
MainReport ==
    /\ pc = "inserted"
    /\ ~dbRet.err
    /\ reported' = TRUE
    /\ exitCode' = <<0>>
    /\ pc' = "exited"
    /\ io' = <<>>
    /\ UNCHANGED <<csvErr, cleanListings, dbRows, dbRet>>
    /\ UNCHANGED <<cfg, sections, secIdx, allListings, seenURLs, collected,
                   currentURL, listings, nextURL, idx, secFailed, secResults,
                   lastOp, discovery, deadline>>
    /\ UNCHANGED <<retryVars, dedupVars, rlVars, enrichVars, cleanerVars, parseVars, pageVars, runVars>>

MainNext ==
    \/ MainConnect \/ MainCreateTable
    \/ MainNoListings \/ MainWriteCsv \/ MainClean
    \/ MainInsert \/ MainInsertFailed \/ MainReport

ScrapeNext ==
    \/ Discover \/ NextSection \/ EnterSection \/ ScrapeDone
    \/ PageLoopEnter \/ PageLoopExit
    \/ PageError \/ PageEmpty \/ PageOk
    \/ FilterEnd \/ FilterQuotaBreak \/ FilterDuplicate
    \/ FilterMark \/ FilterWait \/ FilterKeepEnrich \/ FilterKeepPlain
    \/ PaginateStop \/ PaginateNext \/ PaginateLoop
    \/ ReturnSection
    \/ WaitSteps

-----------------------------------------------------------------------------
(* Initial states *)

\* No section has been discovered or crawled.
CrawlIdle ==
    /\ pageStart = <<>>
    /\ sections = <<>>
    /\ secIdx = 1
    /\ seenURLs = {}
    /\ collected = <<>>
    /\ currentURL = ""
    /\ listings = <<>>
    /\ nextURL = ""
    /\ idx = 1
    /\ secFailed = FALSE
    /\ secResults = <<>>
    /\ io = <<>>
    /\ lastOp = "none"
    /\ discovery = "none"
    /\ deadline = NoDeadline

\* No log of the page loads is kept and there was no run before this one.
RunIdle ==
    /\ fetched = <<>>
    /\ prevRun = <<>>

ScrapeIdle(p) ==
    /\ pc = p
    /\ allListings = <<>>
    /\ CrawlIdle
    /\ MainIdle

DedupIdle ==
    /\ t_seen = {}
    /\ t_mu = "free"
    /\ s_mu = "free"
    /\ w_pc = <<>>
    /\ w_key = <<>>
    /\ w_ret = <<>>
    /\ w_obj = <<>>
    /\ t_hist = <<>>
    /\ t_count = [n |-> 0, at |-> 0]

EnrichIdle ==
    /\ e_listing = <<>>
    /\ e_page = <<>>
    /\ e_result = <<>>

ParseIdle ==
    /\ p_in = <<>>
    /\ p_raw = ""
    /\ p_ret = <<>>

\* The rate limiter of a crawl: NewRateLimiter(cfg.RateLimitDelay) with
\* RATE_LIMIT_DELAY_MS=0, never called yet.
RLIdle ==
    /\ now = 0
    /\ rl_lastCall = <<>>
    /\ rl_delay = 0
    /\ rl_mu = "free"
    /\ rl_pc = [c \in {Crawler} |-> "idle"]
    /\ rl_elapsed = [c \in {Crawler} |-> 0]
    /\ rl_wake = [c \in {Crawler} |-> 0]
    /\ rl_call = [c \in {Crawler} |-> [start |-> 0, slept |-> FALSE, stamp |-> 0]]
    /\ rl_log = <<>>

\* NewAirbnbScraper with a configuration from config.Load.
Init ==
    /\ cfg \in [PropertiesPerPage : Quotas, MaxRetries : RetryCounts,
               MaxConcurrency : {3}]
    /\ site = <<>>
    /\ RunIdle
    /\ ScrapeIdle("start")
    /\ EnrichIdle
    /\ ParseIdle
    /\ RetryIdle
    /\ DedupIdle
    /\ RLIdle

Next == ScrapeNext \/ RetryNext

Spec == Init /\ [][Next]_vars

-----------------------------------------------------------------------------
(* Claims about Scrape / scrapeSection, checked under Spec                  *)

InSection ==
    pc \in {"page_loop", "scrapePage", "filter", "enrich_wait", "enrich",
            "paginate", "page_wait", "return_section"}

RECURSIVE Flatten(_)
Flatten(ss) == IF ss = <<>> THEN <<>> ELSE Head(ss).records \o Flatten(Tail(ss))

\* C1 as stated: inside scrapeSection the number of collected records never
\* exceeds the quota, for every quota value.
C1_CollectedWithinAnyQuota ==
    InSection => Len(collected) <= cfg.PropertiesPerPage

\* C1 amended: the number of records collected for a section never exceeds
\* the quota when the quota is not negative, and is zero when it is
\* negative; this also holds of what every finished section returned.
C1_CollectedWithinQuota ==
    /\ InSection => Len(collected) <= Max(cfg.PropertiesPerPage, 0)
    /\ \A i \in 1 .. Len(secResults) :
          Len(secResults[i].records) <= Max(cfg.PropertiesPerPage, 0)

\* The quota is reached while the page still holds a record never seen.
C1_Witness ==
    /\ pc = "paginate"
    /\ cfg.PropertiesPerPage >= 1
    /\ Len(collected) = cfg.PropertiesPerPage
    /\ idx <= Len(listings)
    /\ listings[idx].URL \notin seenURLs

\* C2: no two records of the raw result (what Scrape has gathered so far,
\* the running section included) share a non-empty url.
C2_NoDuplicateURL ==
    LET all == allListings \o collected IN
    \A i, j \in 1 .. Len(all) :
        (i < j /\ all[i].URL # "") => all[i].URL # all[j].URL

\* A record whose url was collected by an earlier section has just been
\* passed over in the range loop.
C2_Witness ==
    /\ pc = "filter"
    /\ idx > 1
    /\ listings[idx - 1].URL # ""
    /\ \E i \in 1 .. Len(allListings) : allListings[i].URL = listings[idx - 1].URL

\* C3: a failed section does not end the run: when Scrape returns every
\* section has been crawled, and at all times the result holds exactly the
\* records returned by the finished sections, in order.
C3_SectionFailureIsolated ==
    /\ allListings = Flatten(secResults)
    /\ Len(secResults) = secIdx - 1
    /\ pc = "done" => Len(secResults) = Len(sections)

\* The run is over, an earlier section failed and a later one gave records.
C3_Witness ==
    /\ pc = "done"
    /\ \E i, j \in 1 .. Len(secResults) :
          /\ i < j
          /\ secResults[i].failed
          /\ Len(secResults[j].records) > 0

\* C4: once the collected count equals the quota, every further step of
\* the section performs no fetch, no enrichment and no Wait, and only
\* moves on towards the return of scrapeSection.
C4_QuotaStopsSection ==
    [][ (InSection /\ Len(collected) = cfg.PropertiesPerPage) =>
          /\ io' = <<>>
          /\ \/ pc = "filter" /\ pc' = "paginate"
             \/ pc = "paginate" /\ pc' = "return_section"
             \/ pc = "page_loop" /\ pc' = "return_section"
             \/ pc = "return_section" /\ pc' = "range_sections" ]_vars

\* The section returns with the quota met although a next page exists and
\* records of the current page were not looked at.
C4_Witness ==
    /\ pc = "return_section"
    /\ cfg.PropertiesPerPage >= 1
    /\ Len(collected) = cfg.PropertiesPerPage
    /\ nextURL # ""
    /\ idx <= Len(listings)

-----------------------------------------------------------------------------
(* The whole run: Scrape under its 30-minute deadline, then the rest of    *)
(* main.  Claims about the run as a whole are checked under SpecRun.       *)

\* The settings of the runs: a quota of no, one or two records per section
\* and no, or several, attempts per page.
RunConfigs ==
    [PropertiesPerPage : {0, 1, 2}, MaxRetries : {0, MaxRetriesBound},
     MaxConcurrency : {3}]

InitRun ==
    /\ cfg \in RunConfigs
    /\ site = <<>>
    /\ RunIdle
    /\ ScrapeIdle("connect")
    /\ EnrichIdle
    /\ ParseIdle
    /\ RetryIdle
    /\ DedupIdle
    /\ RLIdle

RunNext == Expire \/ ScrapeNext \/ RetryNext \/ MainNext

SpecRun == InitRun /\ [][RunNext]_vars

\* C12 as stated: every page navigation except the very first one of the
\* run directly follows a RateLimiter.Wait made after the previous
\* navigation: no navigation and no plain sleep lies between that Wait and
\* the navigation.
C12_NavigationAfterWait ==
    [][ \A i \in 1 .. Len(io') :
           io'[i] = "Navigate" =>
              (IF i = 1 THEN lastOp ELSE io'[i - 1]) \in {"Wait", "none"} ]_vars

\* C13: when the homepage loads and no section is extracted, Scrape takes
\* the hardcoded fallback list, crawls every section of it and returns
\* with a nil error.
C13_EmptyDiscoveryFallsBack ==
    discovery = "empty" =>
       /\ sections = fallbackSections
       /\ pc \in {"done", "clean", "insert", "inserted", "exited"} =>
             /\ Len(secResults) = Len(sections)
             /\ ~ScrapeErr

\* Discovery found nothing, and the run is over with records collected from
\* the sections of the fallback list.
C13_Witness ==
    /\ discovery = "empty"
    /\ pc = "done"
    /\ Len(secResults) = Len(fallbackSections)
    /\ Len(allListings) > 0

\* C14 as stated: when the homepage navigation fails, Scrape returns an
\* error, crawls no section and does not use the fallback list.
C14_NavigationFailureAborts ==
    discovery = "failed" =>
       /\ sections = <<>>
       /\ secResults = <<>>
       /\ ~InSection
       /\ pc = "done" => ScrapeErr

\* C15 as stated: a run that produced no raw record at all does not end
\* as a success.
C15_ZeroRecordsIsAnError ==
    (pc = "exited" /\ Len(allListings) = 0) => exitCode # <<0>>

\* C16: when the CSV write fails (it is only attempted for a non-empty raw
\* list), the run still cleans the raw listings and calls BatchInsert with
\* the cleaned ones, and it exits with status 1 only if BatchInsert failed.
C16_CsvFailureNotFatal ==
    csvErr =>
       /\ Len(allListings) > 0
       /\ pc \in {"clean", "insert", "inserted", "exited"}
       /\ pc \in {"insert", "inserted", "exited"} =>
             cleanListings = Clean(allListings)
       /\ pc \in {"inserted", "exited"} => dbRows = <<Clean(allListings)>>
       /\ pc = "exited" => (exitCode = <<1>> <=> dbRet.err)
       /\ pc = "exited" => (exitCode = <<0>> <=> ~dbRet.err)

\* The CSV write failed and the run ended with status 0 after BatchInsert
\* was called with at least one clean listing.
C16_Witness ==
    /\ csvErr
    /\ pc = "exited"
    /\ exitCode = <<0>>
    /\ reported
    /\ dbRows # <<>>
    /\ Len(dbRows[1]) > 0

\* C17: after BatchInsert returned an error or skipped a row whose insert
\* failed, the run exits with a non-zero status and generates no report;
\* the report is generated only after a BatchInsert that stored every row
\* and returned nil.
C17_CleanSinkFailureIsFatal ==
    /\ (pc = "inserted" /\ (dbRet.err \/ dbRet.skipped > 0)) =>
          ~reported /\ exitCode = <<>>
    /\ (pc = "exited" /\ dbRows # <<>> /\ (dbRet.err \/ dbRet.skipped > 0)) =>
          exitCode = <<1>> /\ ~reported
    /\ (pc = "exited" /\ dbRows # <<>> /\ ~dbRet.err) =>
          exitCode = <<0>> /\ reported
    /\ reported => dbRows # <<>> /\ ~dbRet.err /\ dbRet.skipped = 0

\* BatchInsert skipped a row and then failed to commit, and the run has
\* exited with status 1.
C17_Witness ==
    /\ pc = "exited"
    /\ dbRet.err
    /\ dbRet.skipped > 0
    /\ exitCode = <<1>>
    /\ ~reported

\* The records of the sections that were complete when the deadline expired.
KeptAtExpiry == Flatten(SubSeq(secResults, 1, deadline.completed))

\* C18: after the deadline expired, the records of the sections completed
\* before the expiry stay at the head of allListings, Scrape returns them
\* with a nil error, and main passes them to Clean and the cleaned list to
\* BatchInsert.
C18_DeadlineKeepsCompleted ==
    deadline.expired =>
       /\ deadline.completed <= Len(secResults)
       /\ Len(KeptAtExpiry) <= Len(allListings)
       /\ SubSeq(allListings, 1, Len(KeptAtExpiry)) = KeptAtExpiry
       /\ pc = "done" => ~ScrapeErr
       /\ pc \in {"insert", "inserted"} => cleanListings = Clean(allListings)
       /\ (pc = "exited" /\ Len(KeptAtExpiry) > 0) =>
             /\ cleanListings = Clean(allListings)
             /\ dbRows = <<Clean(allListings)>>

\* The deadline expired inside a later section after a section had been
\* completed with records, and the run has ended after the call of
\* BatchInsert with a clean listing.
C18_Witness ==
    /\ deadline.expired
    /\ deadline.completed >= 1
    /\ deadline.begun > deadline.completed
    /\ pc = "exited"
    /\ Len(KeptAtExpiry) > 0
    /\ dbRows # <<>>
    /\ Len(dbRows[1]) > 0

\* C19 as stated: after the deadline expired, no step performs a Wait, a
\* fetch attempt or a backoff sleep for a section whose crawl had not begun
\* at the expiry.
C19_NoWorkAfterDeadline ==
    [][ (/\ deadline.expired
         /\ pc' \in {"section_wait", "page_loop", "scrapePage", "filter",
                     "enrich_wait", "enrich", "paginate", "page_wait",
                     "return_section"}
         /\ secIdx' > deadline.begun) => io' = <<>> ]_vars

\* The positions of the page whose url was not in the seen set when the
\* range loop came to them: the url was not seen before the page and is on
\* no earlier card of the page.
FreshOnPage(page, seen) ==
    {i \in 1 .. Len(page) :
        /\ page[i].URL \notin seen
        /\ \A j \in 1 .. (i - 1) : page[j].URL # page[i].URL}

\* C27: when the range loop over a page is over, the records appended to
\* the c records collected before are exactly the first min(quota - c, k)
\* of the k records of the page whose url was not in the seen set when
\* their turn came, in page order; the other records were dropped.
C27_FilterKeepsFirstFresh ==
    (pc = "paginate" /\ pageStart # <<>>) =>
       LET c == pageStart[1].n
           fresh == FreshOnPage(listings, pageStart[1].seen)
           m == Min(cfg.PropertiesPerPage - c, Cardinality(fresh))
       IN  /\ Len(collected) = c + m
           /\ \A n \in 1 .. m :
                 LET l == listings[NthOf(fresh, n)]
                     r == collected[c + n]
                 IN  /\ r.URL = l.URL
                     /\ r.Title = l.Title
                     /\ r.Location = l.Location
           /\ seenURLs = pageStart[1].seen
                            \cup {collected[c + n].URL : n \in 1 .. m}

\* A second page of two cards was filtered with one record collected and a
\* quota of two: the first card was a duplicate and the second was kept.
C27_Witness ==
    /\ pc = "paginate"
    /\ pageStart # <<>>
    /\ pageStart[1].n = 1
    /\ cfg.PropertiesPerPage = 2
    /\ Len(listings) = 2
    /\ listings[1].URL \in pageStart[1].seen
    /\ listings[2].URL \notin pageStart[1].seen
    /\ Len(collected) = 2
    /\ collected[2].URL = listings[2].URL

\* C28: in the range loop over a page, enrichDetail is called for a listing
\* exactly when the listing passed the dedup filter below the quota, has no
\* description and has a url; the call is one navigation, made once, right
\* after a RateLimiter.Wait; the listing is then behind the loop, and its
\* url in the seen set, so that no second call can follow.
C28_EnrichOnlyKeptWithURL ==
    [][ /\ (pc = "filter" /\ deadline' = deadline) =>
              (pc' = "enrich_wait" <=>
                  /\ idx <= Len(listings)
                  /\ Len(collected) < cfg.PropertiesPerPage
                  /\ listings[idx].URL \notin seenURLs
                  /\ listings[idx].Description = <<>>
                  /\ listings[idx].URL # "")
        /\ (pc \in {"filter", "enrich_wait", "enrich"}
              /\ "Navigate" \in {io'[i] : i \in 1 .. Len(io')}) =>
              /\ pc = "enrich"
              /\ lastOp = "Wait"
              /\ io' = <<"Navigate">>
        /\ (pc = "enrich_wait" /\ deadline' = deadline) =>
              /\ io' = <<"Wait">>
              /\ pc' = "enrich"
              /\ idx' = idx
        /\ (pc = "enrich" /\ deadline' = deadline
                           /\ rl_pc[Crawler] # "return") =>
              /\ pc' = "enrich"
              /\ idx' = idx
              /\ collected' = collected
              /\ rl_pc'[Crawler] # "idle"
        /\ (pc = "enrich" /\ deadline' = deadline
                           /\ rl_pc[Crawler] = "return") =>
              /\ io' = <<"Navigate">>
              /\ pc' = "filter"
              /\ idx' = idx + 1
              /\ listings[idx].URL \in seenURLs'
              /\ Len(collected') = Len(collected) + 1
              /\ collected'[Len(collected')].URL = listings[idx].URL ]_vars

\* A page of two cards with the same url: the first was enriched and kept,
\* the second was dropped as a duplicate without any navigation.
C28_Witness ==
    /\ pc = "filter"
    /\ cfg.PropertiesPerPage = 2
    /\ Len(listings) = 2
    /\ idx = 3
    /\ listings[1].URL # ""
    /\ listings[1].URL = listings[2].URL
    /\ pageStart # <<>>
    /\ pageStart[1].n = 0
    /\ listings[1].URL \notin pageStart[1].seen
    /\ Len(collected) = 1
    /\ collected[1].URL = listings[1].URL
    /\ io = <<>>

\* C29 as stated: when scrapePage has failed after all its attempts,
\* scrapeSection returns a non-nil error to Scrape and no record of the
\* section.
C29_FailedSectionReturnsError ==
    [][ (pc = "scrapePage" /\ r_pc = "returned" /\ r_ret.failed) =>
          /\ pc' = "return_section"
          /\ scrapeSectionErr(secFailed')
          /\ collected' = <<>> ]_vars

-----------------------------------------------------------------------------
(* RetryWithBackoff on its own: one call, for every maxRetries              *)

InitRetry ==
    /\ cfg \in [PropertiesPerPage : {0}, MaxRetries : -1 .. MaxAttempts,
               MaxConcurrency : {3}]
    /\ site = <<>>
    /\ RunIdle
    /\ ScrapeIdle("retry_only")
    /\ EnrichIdle
    /\ ParseIdle
    /\ r_pc = "loop"
    /\ attempt = 0
    /\ lastErr = NoErr
    /\ r_ret = RetNil
    /\ r_calls = <<>>
    /\ r_sleeps = <<>>
    /\ DedupIdle
    /\ RLIdle

SpecRetry == InitRetry /\ [][RetryNext]_vars

RECURSIVE SumSeq(_)
SumSeq(q) == IF q = <<>> THEN 0 ELSE Head(q) + SumSeq(Tail(q))

RECURSIVE SumSquares(_)
SumSquares(k) == IF k <= 0 THEN 0 ELSE k * k + SumSquares(k - 1)

\* C7: with maxRetries = n >= 1 and an operation that failed on every call,
\* RetryWithBackoff has called it exactly n times when it returns, and the
\* error it returns wraps the error of the n-th call.
C7_AllFailedWrapsLast ==
    (/\ r_pc = "returned"
     /\ cfg.MaxRetries >= 1
     /\ \A i \in 1 .. Len(r_calls) : r_calls[i] # NoErr)
    => /\ Len(r_calls) = cfg.MaxRetries
       /\ r_ret.failed
       /\ r_ret.attempts = cfg.MaxRetries
       /\ r_ret.wraps = r_calls[cfg.MaxRetries]
       /\ r_ret.wraps.call = cfg.MaxRetries

\* Three attempts failed, the last with another error than the first.
C7_Witness ==
    /\ r_pc = "returned"
    /\ cfg.MaxRetries = 3
    /\ Len(r_calls) = 3
    /\ r_ret.failed
    /\ r_calls[1].msg # r_calls[3].msg

\* C8: when attempt i is about to run, i sleeps have been made, the j-th
\* of j*j seconds (none before attempt 0), so their total is the sum of
\* j*j for j in 1..i.
C8_BackoffSquares ==
    r_pc = "call" =>
       /\ Len(r_calls) = attempt
       /\ Len(r_sleeps) = attempt
       /\ \A j \in 1 .. attempt : r_sleeps[j] = j * j
       /\ SumSeq(r_sleeps) = SumSquares(attempt)

\* Attempt 2 is about to run after sleeps of 1 and 4 seconds.
C8_Witness ==
    /\ r_pc = "call"
    /\ attempt = 2
    /\ r_sleeps = <<1, 4>>

\* C9: a successful attempt is the last thing RetryWithBackoff does: nil
\* is returned, the operation is never called after a success and no
\* sleep follows the successful attempt.
C9_SuccessReturnsAtOnce ==
    /\ \A j \in 1 .. Len(r_calls) :
          r_calls[j] = NoErr => (j = Len(r_calls) /\ r_pc = "returned")
    /\ (r_pc = "returned" /\ r_calls # <<>> /\ r_calls[Len(r_calls)] = NoErr)
          => /\ r_ret = RetNil
             /\ Len(r_calls) = attempt + 1
             /\ Len(r_sleeps) = attempt

\* Success on attempt 1, after one failure, with further attempts allowed.
C9_Witness ==
    /\ r_pc = "returned"
    /\ ~r_ret.failed
    /\ attempt = 1
    /\ Len(r_calls) = 2
    /\ cfg.MaxRetries = 3

-----------------------------------------------------------------------------
(* URLTracker (package utils) and the seenURLs check of scrapeSection,      *)
(* called by goroutines                                                     *)

Keys == URLs

\* _, exists := t.seen[url]
TrackerHas(seen, url) == url \in seen

\* Mutant: Add does not record the url.
TrackerPutForgets(seen, url) == seen

\* t.seen[url] = struct{}{}
TrackerPut(seen, url) == seen \cup {url}

\* len(t.seen)
TrackerLen(seen) == Cardinality(seen)

Started == Len(t_hist) + Cardinality({w \in DOMAIN w_pc : w_pc[w] # "idle"})

\* One caller makes up to MaxAdds calls, several make up to MaxRaces.
MaxCalls == IF Cardinality(DOMAIN w_pc) = 1 THEN MaxAdds ELSE MaxRaces

\* A goroutine calls t.Add(key).
AddCall(w) ==
    /\ w_pc[w] = "idle"
    /\ Started < MaxCalls
    /\ \E k \in Keys : w_key' = [w_key EXCEPT ![w] = k]
    /\ w_obj' = [w_obj EXCEPT ![w] = "tracker"]
    /\ w_pc' = [w_pc EXCEPT ![w] = "lock"]
    /\ UNCHANGED <<t_seen, t_mu, s_mu, w_ret, t_hist, t_count>>
    /\ UNCHANGED <<scrapeVars, retryVars, rlVars, mainVars, enrichVars, cleanerVars, parseVars, pageVars, runVars>>

\* t.mu.Lock()
AddLock(w) ==
    /\ w_pc[w] = "lock"
    /\ w_obj[w] = "tracker"
    /\ CanLock(t_mu)
    /\ t_mu' = w
    /\ w_pc' = [w_pc EXCEPT ![w] = "check"]
    /\ UNCHANGED <<t_seen, s_mu, w_key, w_ret, w_obj, t_hist, t_count>>
    /\ UNCHANGED <<scrapeVars, retryVars, rlVars, mainVars, enrichVars, cleanerVars, parseVars, pageVars, runVars>>

\* if _, exists := t.seen[url]; exists { return false }
AddCheck(w) ==
    /\ w_pc[w] = "check"
    /\ w_obj[w] = "tracker"
    /\ IF TrackerHas(t_seen, w_key[w])
       THEN /\ w_ret' = [w_ret EXCEPT ![w] = FALSE]
            /\ w_pc' = [w_pc EXCEPT ![w] = "unlock"]
       ELSE /\ w_ret' = w_ret
            /\ w_pc' = [w_pc EXCEPT ![w] = "insert"]
    /\ UNCHANGED <<t_seen, t_mu, s_mu, w_key, w_obj, t_hist, t_count>>
    /\ UNCHANGED <<scrapeVars, retryVars, rlVars, mainVars, enrichVars, cleanerVars, parseVars, pageVars, runVars>>

\* t.seen[url] = struct{}{}; return true
AddInsert(w) ==
    /\ w_pc[w] = "insert"
    /\ w_obj[w] = "tracker"
    /\ t_seen' = TrackerPut(t_seen, w_key[w])
    /\ w_ret' = [w_ret EXCEPT ![w] = TRUE]
    /\ w_pc' = [w_pc EXCEPT ![w] = "unlock"]
    /\ UNCHANGED <<t_mu, s_mu, w_key, w_obj, t_hist, t_count>>
    /\ UNCHANGED <<scrapeVars, retryVars, rlVars, mainVars, enrichVars, cleanerVars, parseVars, pageVars, runVars>>

\* defer t.mu.Unlock(), and Add returns.
AddUnlock(w) ==
    /\ w_pc[w] = "unlock"
    /\ w_obj[w] = "tracker"
    /\ t_mu' = "free"
    /\ t_hist' = Append(t_hist,
                        [obj |-> "tracker", key |-> w_key[w], ret |-> w_ret[w]])
    /\ w_pc' = [w_pc EXCEPT ![w] = "idle"]
    /\ UNCHANGED <<t_seen, s_mu, w_key, w_ret, w_obj, t_count>>
    /\ UNCHANGED <<scrapeVars, retryVars, rlVars, mainVars, enrichVars, cleanerVars, parseVars, pageVars, runVars>>

\* Count: Lock, len(t.seen), Unlock.
TrackerCount ==
    /\ CanLock(t_mu)
    /\ t_count' = [n |-> TrackerLen(t_seen), at |-> Len(t_hist)]
    /\ t_count # t_count'
    /\ UNCHANGED <<t_seen, t_mu, s_mu, w_pc, w_key, w_ret, w_obj, t_hist>>
    /\ UNCHANGED <<scrapeVars, retryVars, rlVars, mainVars, enrichVars, cleanerVars, parseVars, pageVars, runVars>>

\* A goroutine reaches the dedup check of scrapeSection with a listing.
SeenCall(w) ==
    /\ w_pc[w] = "idle"
    /\ Started < MaxCalls
    /\ \E k \in Keys : w_key' = [w_key EXCEPT ![w] = k]
    /\ w_obj' = [w_obj EXCEPT ![w] = "seenURLs"]
    /\ w_pc' = [w_pc EXCEPT ![w] = "lock"]
    /\ UNCHANGED <<t_seen, t_mu, s_mu, w_ret, t_hist, t_count>>
    /\ UNCHANGED <<scrapeVars, retryVars, rlVars, mainVars, enrichVars, cleanerVars, parseVars, pageVars, runVars>>

\* s.mu.Lock()
SeenLock(w) ==
    /\ w_pc[w] = "lock"
    /\ w_obj[w] = "seenURLs"
    /\ CanLock(s_mu)
    /\ s_mu' = w
    /\ w_pc' = [w_pc EXCEPT ![w] = "check"]
    /\ UNCHANGED <<t_seen, t_mu, w_key, w_ret, w_obj, t_hist, t_count>>
    /\ UNCHANGED <<scrapeVars, retryVars, rlVars, mainVars, enrichVars, cleanerVars, parseVars, pageVars, runVars>>

\* if s.seenURLs[l.URL] { s.mu.Unlock(); continue }
SeenCheckDuplicate(w) ==
    /\ w_pc[w] = "check"
    /\ w_obj[w] = "seenURLs"
    /\ IsSeen(seenURLs, w_key[w])
    /\ s_mu' = "free"
    /\ w_ret' = [w_ret EXCEPT ![w] = FALSE]
    /\ t_hist' = Append(t_hist,
                        [obj |-> "seenURLs", key |-> w_key[w], ret |-> FALSE])
    /\ w_pc' = [w_pc EXCEPT ![w] = "idle"]
    /\ UNCHANGED <<t_seen, t_mu, w_key, w_obj, t_count>>
    /\ UNCHANGED <<scrapeVars, retryVars, rlVars, mainVars, enrichVars, cleanerVars, parseVars, pageVars, runVars>>

\* The url is not in seenURLs: go on to the insertion.
SeenCheckNew(w) ==
    /\ w_pc[w] = "check"
    /\ w_obj[w] = "seenURLs"
    /\ ~IsSeen(seenURLs, w_key[w])
    /\ w_pc' = [w_pc EXCEPT ![w] = "insert"]
    /\ UNCHANGED <<t_seen, t_mu, s_mu, w_key, w_ret, w_obj, t_hist, t_count>>
    /\ UNCHANGED <<scrapeVars, retryVars, rlVars, mainVars, enrichVars, cleanerVars, parseVars, pageVars, runVars>>

\* s.seenURLs[l.URL] = true
SeenInsert(w) ==
    /\ w_pc[w] = "insert"
    /\ w_obj[w] = "seenURLs"
    /\ seenURLs' = MarkSeen(seenURLs, w_key[w])
    /\ w_ret' = [w_ret EXCEPT ![w] = TRUE]
    /\ w_pc' = [w_pc EXCEPT ![w] = "unlock"]
    /\ UNCHANGED <<pc, cfg, sections, secIdx, allListings, collected,
                   currentURL, listings, nextURL, idx, secFailed, secResults,
                   io, lastOp, discovery, deadline>>
    /\ UNCHANGED <<t_seen, t_mu, s_mu, w_key, w_obj, t_hist, t_count>>
    /\ UNCHANGED <<retryVars, rlVars, mainVars, enrichVars, cleanerVars, parseVars, pageVars, runVars>>

\* s.mu.Unlock(); the listing is kept.
SeenUnlock(w) ==
    /\ w_pc[w] = "unlock"
    /\ w_obj[w] = "seenURLs"
    /\ s_mu' = "free"
    /\ t_hist' = Append(t_hist,
                        [obj |-> "seenURLs", key |-> w_key[w], ret |-> TRUE])
    /\ w_pc' = [w_pc EXCEPT ![w] = "idle"]
    /\ UNCHANGED <<t_seen, t_mu, w_key, w_ret, w_obj, t_count>>
    /\ UNCHANGED <<scrapeVars, retryVars, rlVars, mainVars, enrichVars, cleanerVars, parseVars, pageVars, runVars>>

WorkerNames == {"g1", "g2", "g3", "g4"}

WorkerSets(n) == {W \in SUBSET WorkerNames : Cardinality(W) = n}

InitWorkers(W) ==
    /\ cfg = [PropertiesPerPage |-> 0, MaxRetries |-> 0, MaxConcurrency |-> 3]
    /\ site = <<>>
    /\ RunIdle
    /\ ScrapeIdle("workers")
    /\ EnrichIdle
    /\ ParseIdle
    /\ RetryIdle
    /\ t_seen = {}
    /\ t_mu = "free"
    /\ s_mu = "free"
    /\ w_pc = [w \in W |-> "idle"]
    /\ w_key = [w \in W |-> ""]
    /\ w_ret = [w \in W |-> FALSE]
    /\ w_obj = [w \in W |-> "tracker"]
    /\ t_hist = <<>>
    /\ t_count = [n |-> 0, at |-> 0]
    /\ RLIdle

\* One caller uses a URLTracker: any sequence of Add and Count calls.
InitTracker == InitWorkers({"g1"})

TrackerAdds ==
    \/ \E w \in DOMAIN w_pc : AddCall(w)
    \/ \E w \in DOMAIN w_pc : AddLock(w)
    \/ \E w \in DOMAIN w_pc : AddCheck(w)
    \/ \E w \in DOMAIN w_pc : AddInsert(w)
    \/ \E w \in DOMAIN w_pc : AddUnlock(w)

TrackerNext == TrackerAdds \/ TrackerCount

SpecTracker == InitTracker /\ [][TrackerNext]_vars

\* Several goroutines use one URLTracker and one AirbnbScraper.
InitDedup == InitWorkers(CHOOSE W \in WorkerSets(MaxWorkers) : TRUE)

SeenChecks ==
    \/ \E w \in DOMAIN w_pc : SeenCall(w)
    \/ \E w \in DOMAIN w_pc : SeenLock(w)
    \/ \E w \in DOMAIN w_pc : SeenCheckDuplicate(w)
    \/ \E w \in DOMAIN w_pc : SeenCheckNew(w)
    \/ \E w \in DOMAIN w_pc : SeenInsert(w)
    \/ \E w \in DOMAIN w_pc : SeenUnlock(w)

DedupNext == TrackerAdds \/ SeenChecks

SpecDedup == InitDedup /\ [][DedupNext]_vars

KeysUpTo(h, n) == {h[j].key : j \in 1 .. n}

\* C5: in every sequence of Add calls, Add(key) returns true iff no
\* earlier Add had that key; no key ever leaves the set; the set holds
\* exactly the keys added so far, and Count() returns their number and
\* never decreases.
C5_AddTrueIffNew ==
    /\ [](/\ \A i \in 1 .. Len(t_hist) :
                t_hist[i].ret <=> (t_hist[i].key \notin KeysUpTo(t_hist, i - 1))
          /\ t_mu = "free" => t_seen = KeysUpTo(t_hist, Len(t_hist))
          /\ t_count.n = Cardinality(KeysUpTo(t_hist, t_count.at)))
    /\ [][t_seen \subseteq t_seen' /\ t_count.n <= t_count'.n]_vars

\* A key was added twice, and Count saw one key after both calls.
C5_Witness ==
    /\ Len(t_hist) >= 3
    /\ t_hist[1].key = t_hist[2].key
    /\ t_hist[1].ret /\ ~t_hist[2].ret
    /\ t_hist[3].key # t_hist[1].key
    /\ t_count = [n |-> 2, at |-> 3]

ObservedNew(w, obj, k) ==
    /\ w_obj[w] = obj
    /\ w_key[w] = k
    /\ w_pc[w] = "insert" \/ (w_pc[w] = "unlock" /\ w_ret[w])

Winners(obj, k) ==
    Cardinality({w \in DOMAIN w_pc : ObservedNew(w, obj, k)})
    + Cardinality({i \in 1 .. Len(t_hist) :
                      t_hist[i].obj = obj /\ t_hist[i].key = k /\ t_hist[i].ret})

\* C6: under every interleaving of goroutines doing the check-and-insert
\* on one set with the same key, at most one of them observes "not
\* present", and once any of them has finished exactly one has.
C6_OneWinnerPerKey ==
    \A obj \in {"tracker", "seenURLs"}, k \in Keys :
       /\ Winners(obj, k) <= 1
       /\ (\E i \in 1 .. Len(t_hist) : t_hist[i].obj = obj /\ t_hist[i].key = k)
             => Winners(obj, k) = 1

\* Two goroutines are inside the check-and-insert with the same key on
\* the same set: one holds the mutex and has observed "not present", the
\* other is blocked on Lock.
C6_Witness ==
    \E w1, w2 \in DOMAIN w_pc :
       /\ w1 # w2
       /\ w_obj[w1] = w_obj[w2]
       /\ w_key[w1] = w_key[w2]
       /\ w_pc[w1] = "insert"
       /\ w_pc[w2] = "lock"

-----------------------------------------------------------------------------
(* RateLimiter (utils/ratelimiter.go) against a clock that may advance      *)
(* between any two steps. A time.Time is <<>> (the zero Time) or <<t>>.     *)

\* The clock advances.
Tick ==
    /\ now < MaxTime
    /\ now' = now + 1
    /\ UNCHANGED <<rl_lastCall, rl_delay, rl_mu, rl_pc, rl_elapsed, rl_wake,
                   rl_call, rl_log>>
    /\ UNCHANGED <<scrapeVars, retryVars, dedupVars, mainVars, enrichVars, cleanerVars, parseVars, pageVars, runVars>>

\* NewRateLimiter(delayMs), used by the callers in C.
InitRateLimiter(C) ==
    /\ cfg = [PropertiesPerPage |-> 0, MaxRetries |-> 0, MaxConcurrency |-> 3]
    /\ site = <<>>
    /\ RunIdle
    /\ ScrapeIdle("waits")
    /\ EnrichIdle
    /\ ParseIdle
    /\ RetryIdle
    /\ DedupIdle
    /\ now = 0
    /\ rl_lastCall = <<>>
    /\ rl_delay \in -1 .. MaxDelay
    /\ rl_mu = "free"
    /\ rl_pc = [c \in C |-> "idle"]
    /\ rl_elapsed = [c \in C |-> 0]
    /\ rl_wake = [c \in C |-> 0]
    /\ rl_call = [c \in C |-> [start |-> 0, slept |-> FALSE, stamp |-> 0]]
    /\ rl_log = <<>>

\* One caller makes Wait calls one after the other, as Scrape does.
InitRL == InitRateLimiter({"g1"})

Waits ==
    \/ \E c \in DOMAIN rl_pc : WaitCall(c)
    \/ \E c \in DOMAIN rl_pc : WaitLock(c)
    \/ \E c \in DOMAIN rl_pc : WaitRead(c)
    \/ \E c \in DOMAIN rl_pc : WaitSleep(c)
    \/ \E c \in DOMAIN rl_pc : WaitWake(c)
    \/ \E c \in DOMAIN rl_pc : WaitStamp(c)
    \/ \E c \in DOMAIN rl_pc : WaitUnlock(c)
    \/ \E c \in DOMAIN rl_pc : WaitReturn(c)

RLNext == Tick \/ Waits

SpecRL == InitRL /\ [][RLNext]_vars

\* C10 as stated: each Wait after the first returns no earlier than delay
\* after the previous Wait call returned.
C10_DelayAfterPreviousReturn ==
    \A i \in 2 .. Len(rl_log) : rl_log[i].ret >= rl_log[i - 1].ret + rl_delay

\* C10 amended: each Wait after the first returns no earlier than delay
\* after the clock reading the previous call stored in lastCall, which
\* that call took after it started and before it returned; so it returns
\* at least delay after the previous call started.
C10_DelayAfterPreviousStamp ==
    \A i \in 2 .. Len(rl_log) :
       /\ rl_log[i].ret >= rl_log[i - 1].stamp + rl_delay
       /\ rl_log[i - 1].start <= rl_log[i - 1].stamp
       /\ rl_log[i - 1].stamp <= rl_log[i - 1].ret
       /\ rl_log[i].ret >= rl_log[i - 1].start + rl_delay

\* The second Wait slept and returned exactly delay after the reading.
C10_Witness ==
    /\ Len(rl_log) >= 2
    /\ rl_delay >= 2
    /\ rl_log[2].slept
    /\ rl_log[2].ret = rl_log[1].stamp + rl_delay

\* C11: the first Wait call on a freshly constructed RateLimiter never
\* sleeps, whatever the configured delay: it never reaches time.Sleep, and
\* once it has returned it is logged as a call that did not sleep.
C11_FirstWaitNeverSleeps ==
    /\ Len(rl_log) = 0 =>
          \A c \in DOMAIN rl_pc :
             rl_pc[c] \notin {"sleep", "sleeping"} /\ ~rl_call[c].slept
    /\ Len(rl_log) >= 1 => ~rl_log[1].slept

\* The first Wait of a limiter with a delay of at least 2 has returned, at
\* the clock value at which it was called.
C11_Witness ==
    /\ Len(rl_log) >= 1
    /\ rl_delay >= 2
    /\ rl_log[1].start = 0
    /\ rl_log[1].ret = 0
    /\ ~rl_log[1].slept

-----------------------------------------------------------------------------
(* enrichDetail called on its own.  The card title and the candidate come   *)
(* from the page as JavaScript's trim() leaves them; strings.TrimSpace also *)
(* removes U+0085, which trim() keeps, so either text can still begin or    *)
(* end with a character TrimSpace removes.  " " stands for such a           *)
(* character, and "a" / "A" for a letter in its two cases.                  *)

MaxText == 2

EnrichChars == {"a", "A", " "}

EnrichTexts == SeqsUpTo(EnrichChars, MaxText)

\* The listings handed to enrichDetail: scrapePage leaves Description empty.
EnrichListings ==
    {RawListing([Title |-> t, URL |-> u, Location |-> ""], "Paris") :
        t \in EnrichTexts, u \in {"", "/rooms/1"}}

\* chromedp.Run fails, or desc holds the text of the description element.
EnrichPages ==
    {[err |-> TRUE, desc |-> <<>>]} \cup
    {[err |-> FALSE, desc |-> d] : d \in EnrichTexts}

InitEnrich ==
    /\ cfg \in [PropertiesPerPage : {1}, MaxRetries : {0},
               MaxConcurrency : {3}]
    /\ site = <<>>
    /\ RunIdle
    /\ ScrapeIdle("enrich")
    /\ RetryIdle
    /\ DedupIdle
    /\ RLIdle
    /\ e_listing \in {<<l>> : l \in EnrichListings}
    /\ e_page \in {<<out>> : out \in EnrichPages}
    /\ e_result = <<>>
    /\ ParseIdle

\* One call enrichDetail(ctx, &listing); the detail page is loaded only when
\* the listing has a url.
EnrichCall ==
    /\ pc = "enrich"
    /\ e_result' = <<enrichDetail(e_listing[1], e_page[1])>>
    /\ pc' = "enriched"
    /\ io' = IF e_listing[1].URL = "" THEN <<>> ELSE <<"Navigate">>
    /\ lastOp' = LastOp(lastOp, io')
    /\ UNCHANGED <<cfg, sections, secIdx, allListings, seenURLs, collected,
                   currentURL, listings, nextURL, idx, secFailed, secResults,
                   discovery, deadline>>
    /\ UNCHANGED <<e_listing, e_page>>
    /\ UNCHANGED <<mainVars, retryVars, dedupVars, rlVars, cleanerVars, parseVars, pageVars, runVars>>

SpecEnrich == InitEnrich /\ [][EnrichCall]_vars

\* A text without the characters TrimSpace removes at its two ends.
Core(s) ==
    LET kept == {i \in 1 .. Len(s) : s[i] # " "}
    IN  IF kept = {} THEN <<>>
        ELSE SubSeq(s, CHOOSE i \in kept : \A j \in kept : i <= j,
                       CHOOSE i \in kept : \A j \in kept : i >= j)

\* A text with every letter in lower case.
Folded(s) == [i \in 1 .. Len(s) |-> IF s[i] = "A" THEN "a" ELSE s[i]]

\* The candidate repeats the title, up to case and surrounding white space.
RepeatsTitle(desc, title) == Folded(Core(desc)) = Folded(Core(title))

\* C20: enrichDetail assigns the extracted candidate to the description only
\* if the candidate is not empty and, both being trimmed, is not equal to
\* the title when case is ignored; in every other case the description is
\* left as it was, empty, and no other field of the listing changes.
C20_DescriptionOnlyIfNewText ==
    pc = "enriched" =>
        LET l == e_listing[1]
            out == e_page[1]
            r == e_result[1]
        IN  /\ r.Title = l.Title
            /\ r.URL = l.URL
            /\ r.Location = l.Location
            /\ r.Description \in {l.Description, out.desc}
            /\ r.Description # l.Description =>
                  /\ out.desc # <<>>
                  /\ ~RepeatsTitle(out.desc, l.Title)

\* The detail page was loaded and gave the title in the other case and with
\* a trailing character that TrimSpace removes: the description stayed
\* empty.
C20_Witness ==
    /\ pc = "enriched"
    /\ e_listing[1].URL # ""
    /\ e_listing[1].Title = <<"a">>
    /\ ~e_page[1].err
    /\ e_page[1].desc = <<"A", " ">>
    /\ e_result[1].Description = <<>>

-----------------------------------------------------------------------------
(* DataCleaner.Clean called on its own, for every short slice of raw        *)
(* listings, and then once more on what it returned.                        *)

MaxRaw == 2

CleanerTitles == {<<>>, <<"a">>, <<" ", "a">>}
CleanerURLs == {"", "/rooms/1", "/rooms/1 ", "/rooms/2"}
CleanerLocations == {"Paris", " Paris", "Flat in Paris", "Flat in  Paris"}

CleanerRaw ==
    [Title : CleanerTitles, URL : CleanerURLs, Location : CleanerLocations,
     Description : {<<>>}]

InitCleaner ==
    /\ cfg \in [PropertiesPerPage : {1}, MaxRetries : {0},
               MaxConcurrency : {3}]
    /\ site = <<>>
    /\ RunIdle
    /\ pc = "clean"
    /\ allListings \in SeqsUpTo(CleanerRaw, MaxRaw)
    /\ CrawlIdle
    /\ MainIdle
    /\ EnrichIdle
    /\ ParseIdle
    /\ RetryIdle
    /\ DedupIdle
    /\ RLIdle

\* A clean Listing read again as a RawListing with the same title, url,
\* location and description.
AsRaw(l) ==
    [Title |-> l.Title, URL |-> l.URL, Location |-> l.Location,
     Description |-> l.Description]

\* Clean is called on its own output.
CleanAgain ==
    /\ pc = "insert"
    /\ recleaned' =
          << Clean([i \in 1 .. Len(cleanListings) |-> AsRaw(cleanListings[i])]) >>
    /\ pc' = "recleaned"
    /\ io' = <<>>
    /\ UNCHANGED report
    /\ UNCHANGED <<cfg, sections, secIdx, allListings, seenURLs, collected,
                   currentURL, listings, nextURL, idx, secFailed, secResults,
                   lastOp, discovery, deadline>>
    /\ UNCHANGED <<mainVars, retryVars, dedupVars, rlVars, enrichVars,
                   parseVars, pageVars, runVars>>

CleanerNext == MainClean \/ CleanAgain

SpecCleaner == InitCleaner /\ [][CleanerNext]_vars

\* The dedup key of a raw record: the trimmed url, or without one the
\* trimmed title, a bar and the trimmed location.
DedupKey(r) ==
    LET u == StrTrimSpace(r.URL)
    IN  IF u = "" THEN SeqToStr(Core(r.Title)) \o "|" \o StrTrimSpace(r.Location)
        ELSE u

\* The positions of raw that Clean has to keep: the record has a title and
\* no earlier record with a title has its key.
FirstOfKey(raw) ==
    {i \in 1 .. Len(raw) :
        /\ Core(raw[i].Title) # <<>>
        /\ \A j \in 1 .. (i - 1) :
              Core(raw[j].Title) # <<>> => DedupKey(raw[j]) # DedupKey(raw[i])}

\* C22: Clean keeps, for every dedup key, exactly the first raw record with
\* that key among the records that have a title, drops the later ones, and
\* returns the kept records in the order of the input.
C22_FirstOfEachKeyInOrder ==
    pc \in {"insert", "recleaned"} =>
       /\ Len(cleanListings) = Cardinality(FirstOfKey(allListings))
       /\ \A n \in 1 .. Len(cleanListings) :
             cleanListings[n] =
                CleanListing(allListings[NthOf(FirstOfKey(allListings), n)])

\* Two raw records whose urls differ only by a trailing blank: the first
\* one is the only clean listing.
C22_Witness ==
    /\ pc = "insert"
    /\ Len(allListings) = 2
    /\ allListings[1].URL = "/rooms/1 "
    /\ allListings[2].URL = "/rooms/1"
    /\ allListings[1].Location # allListings[2].Location
    /\ Core(allListings[1].Title) # <<>>
    /\ Core(allListings[2].Title) # <<>>
    /\ cleanListings = <<CleanListing(allListings[1])>>

\* C23 as stated: Clean applied to its own output returns that output, with
\* no record dropped and no field changed.
C23_CleanIdempotent ==
    pc = "recleaned" => recleaned[1] = cleanListings

-----------------------------------------------------------------------------
(* parsePrice and parseRating (services/insights.go) called on their own.   *)
(* The texts are TLA+ strings read character by character.  A float64 with  *)
(* at most two decimals is held in hundredths; a quotient is held as a      *)
(* fraction num / den, so the rounding of the division is not modelled.     *)

MaxNights == 3
MaxRatingLen == 4

\* The character of s at position i (1-based), "" outside of s.
At(s, i) == IF i >= 1 /\ i <= Len(s) THEN SubSeq(s, i, i) ELSE ""

\* s[a..b] cut to the length of s.
Sub(s, a, b) ==
    IF a > Len(s) \/ b < a THEN "" ELSE SubSeq(s, a, Min(b, Len(s)))

\* \d
IsDigit(c) == c \in {"0", "1", "2", "3", "4", "5", "6", "7", "8", "9"}

\* \s, for the white space the texts contain
IsSpace(c) == c = " "

\* [\d,]
IsDigitOrComma(c) == IsDigit(c) \/ c = ","

DigitVal(c) == CHOOSE d \in 0 .. 9 : At("0123456789", d + 1) = c

\* The value of a string of digits.
RECURSIVE DecVal(_)
DecVal(s) ==
    IF Len(s) = 0 THEN 0
    ELSE DecVal(Sub(s, 1, Len(s) - 1)) * 10 + DigitVal(At(s, Len(s)))

\* strings.ReplaceAll(raw, ",", "")
RECURSIVE RemoveCommas(_)
RemoveCommas(s) ==
    IF Len(s) = 0 THEN ""
    ELSE (IF At(s, 1) = "," THEN "" ELSE At(s, 1))
            \o RemoveCommas(Sub(s, 2, Len(s)))

\* The last position of the longest run of [\d,] that starts at j (j - 1
\* when s[j] is not in the class).
RECURSIVE AmountRunEnd(_, _)
AmountRunEnd(s, j) ==
    IF IsDigitOrComma(At(s, j)) THEN AmountRunEnd(s, j + 1) ELSE j - 1

\* The same for \d+ ...
RECURSIVE DigitRunEnd(_, _)
DigitRunEnd(s, j) == IF IsDigit(At(s, j)) THEN DigitRunEnd(s, j + 1) ELSE j - 1

\* ... and for \s+.
RECURSIVE SpaceRunEnd(_, _)
SpaceRunEnd(s, j) == IF IsSpace(At(s, j)) THEN SpaceRunEnd(s, j + 1) ELSE j - 1

NoMatch == [found |-> FALSE, text |-> ""]

\* priceRegex \$?([\d,]+(?:\.\d{2})?) matched at position i: group 1.
PriceMatchAt(s, i) ==
    LET g == IF At(s, i) = "$" /\ IsDigitOrComma(At(s, i + 1)) THEN i + 1 ELSE i
        e == AmountRunEnd(s, g)
        cents == At(s, e + 1) = "." /\ IsDigit(At(s, e + 2))
                    /\ IsDigit(At(s, e + 3))
    IN  IF e < g THEN NoMatch
        ELSE [found |-> TRUE, text |-> Sub(s, g, IF cents THEN e + 3 ELSE e)]

\* FindStringSubmatch: the leftmost match.
RECURSIVE PriceFindFrom(_, _)
PriceFindFrom(s, i) ==
    IF i > Len(s) THEN NoMatch
    ELSE IF PriceMatchAt(s, i).found THEN PriceMatchAt(s, i)
    ELSE PriceFindFrom(s, i + 1)

\* strconv.ParseFloat on group 1 fails on a text that is no number: a comma
\* in it, or no digit at all.
ParseFloatOk(t) ==
    /\ \A i \in 1 .. Len(t) : At(t, i) # ","
    /\ IsDigit(At(t, 1))

\* strconv.ParseFloat on digits with or without two decimals, in hundredths.
ParseHundredths(t) ==
    LET e == DigitRunEnd(t, 1)
    IN  DecVal(Sub(t, 1, e)) * 100
           + (IF e + 3 = Len(t) THEN DecVal(Sub(t, e + 2, e + 3))
              ELSE IF e + 2 = Len(t) THEN DecVal(Sub(t, e + 2, e + 2)) * 10
              ELSE 0)

\* nightsRegex for\s+(\d+)\s+night matched at position i: group 1.
NightsMatchAt(s, i) ==
    LET w1 == SpaceRunEnd(s, i + 3)
        d == DigitRunEnd(s, w1 + 1)
        w2 == SpaceRunEnd(s, d + 1)
    IN  IF /\ Sub(s, i, i + 2) = "for"
           /\ w1 >= i + 3
           /\ d >= w1 + 1
           /\ w2 >= d + 1
           /\ Sub(s, w2 + 1, w2 + 5) = "night"
        THEN [found |-> TRUE, text |-> Sub(s, w1 + 1, d)]
        ELSE NoMatch

RECURSIVE NightsFindFrom(_, _)
NightsFindFrom(s, i) ==
    IF i > Len(s) THEN NoMatch
    ELSE IF NightsMatchAt(s, i).found THEN NightsMatchAt(s, i)
    ELSE NightsFindFrom(s, i + 1)

\* The float64 0.
ZeroPrice == [num |-> 0, den |-> 100]

\* parsePrice: val, or val / nights.
parsePrice(raw) ==
    IF raw = "" THEN ZeroPrice
    ELSE
      LET cleaned == RemoveCommas(raw)
          matches == PriceFindFrom(cleaned, 1)
          m == NightsFindFrom(cleaned, 1)
      IN  IF ~matches.found THEN ZeroPrice
          ELSE IF ~ParseFloatOk(matches.text) THEN ZeroPrice
          ELSE IF m.found /\ DecVal(m.text) > 0
               THEN [num |-> ParseHundredths(matches.text),
                     den |-> 100 * DecVal(m.text)]
               ELSE [num |-> ParseHundredths(matches.text), den |-> 100]

\* ratingRegex ([45]\.\d{1,2}|\d\.\d{1,2}) matched at position i.
RatingMatchAt(s, i) ==
    IF /\ At(s, i) \in {"4", "5"} \/ IsDigit(At(s, i))
       /\ At(s, i + 1) = "."
       /\ IsDigit(At(s, i + 2))
    THEN [found |-> TRUE,
          text |-> Sub(s, i, IF IsDigit(At(s, i + 3)) THEN i + 3 ELSE i + 2)]
    ELSE NoMatch

RECURSIVE RatingFindFrom(_, _)
RatingFindFrom(s, i) ==
    IF i > Len(s) THEN NoMatch
    ELSE IF RatingMatchAt(s, i).found THEN RatingMatchAt(s, i)
    ELSE RatingFindFrom(s, i + 1)

\* Mutant: a value above 5 is clamped to 5.
parseRatingClamped(raw) ==
    IF raw = "" THEN 0
    ELSE
      LET matches == RatingFindFrom(raw, 1)
      IN  IF ~matches.found THEN 0
          ELSE IF ParseHundredths(matches.text) > 500 THEN 500
          ELSE ParseHundredths(matches.text)

\* parseRating, in hundredths.
parseRating(raw) ==
    IF raw = "" THEN 0
    ELSE
      LET matches == RatingFindFrom(raw, 1)
      IN  IF ~matches.found THEN 0
          ELSE IF ParseHundredths(matches.text) > 500 THEN 0
          ELSE ParseHundredths(matches.text)

\* A number as it is printed.
RECURSIVE NumText(_)
NumText(n) ==
    IF n < 10 THEN At("0123456789", n + 1)
    ELSE NumText(n \div 10) \o At("0123456789", (n % 10) + 1)

\* ... with a thousands separator.
PriceText(n) ==
    IF n < 1000 THEN NumText(n)
    ELSE NumText(n \div 1000) \o "," \o NumText((n % 1000) \div 100)
            \o NumText((n % 100) \div 10) \o NumText(n % 10)

\* The raw price texts: words, a dollar sign or none, an amount or none with
\* two decimals, one or none, and what the card says about the stay.
PriceLeads == {"", "from ", "free stay"}
PriceDollars == {"", "$"}
PriceAmounts == {0, 7, 50, 71, 1200}
PriceDecimals == {"", ".50", ".5"}
PriceStays ==
    {[nights |-> <<>>, text |-> t] : t \in {"", " per night", " total"}}
    \cup {[nights |-> <<n>>, text |-> " for " \o NumText(n) \o " night" \o e] :
             n \in 0 .. MaxNights, e \in {"", "s"}}
    \cup {[nights |-> <<n>>, text |-> " for  " \o NumText(n) \o "  nights"] :
             n \in 1 .. MaxNights}
    \cup {[nights |-> <<>>, text |-> " for" \o NumText(n) \o "nights"] :
             n \in 1 .. MaxNights}

PriceInputs ==
    [fn : {"parsePrice"}, lead : PriceLeads, dollar : PriceDollars,
     amount : {<<>>} \cup {<<a>> : a \in PriceAmounts},
     decimals : PriceDecimals, stay : PriceStays]

PriceRaw(in) ==
    in.lead \o in.dollar
       \o (IF in.amount = <<>> THEN "" ELSE PriceText(in.amount[1]) \o in.decimals)
       \o in.stay.text

\* The raw rating texts: every short text over a few characters, and texts
\* of the site.
RatingChars == {"4", "5", "6", "0", ".", " "}

RECURSIVE RatingTexts(_)
RatingTexts(n) ==
    IF n = 0 THEN {""}
    ELSE RatingTexts(n - 1)
            \cup {t \o c : t \in RatingTexts(n - 1), c \in RatingChars}

RatingRaw ==
    RatingTexts(MaxRatingLen)
       \cup {"4.82 out of 5 average rating", "New", "4.9 (123)", "14.82",
             "6.5 4.8", "15.00"}

\* The raw locations: a phrase of 4, 29 or 30 characters or none, " in "
\* after it, and a place, which may itself hold " in ".
LocationHeads ==
    {"", "Flat in ", "Whole flat with a sea view on in ",
     "Whole flat with a sea views on in "}
LocationPlaces ==
    {"Paris", "a house in Paris", "a quiet house by the old harbour in Paris"}
LocationRaw ==
    {lead \o head \o place \o tail :
        lead \in {"", " "}, head \in LocationHeads, place \in LocationPlaces,
        tail \in {"", " "}}

InitParse ==
    /\ cfg \in [PropertiesPerPage : {1}, MaxRetries : {0},
               MaxConcurrency : {3}]
    /\ site = <<>>
    /\ RunIdle
    /\ ScrapeIdle("parse")
    /\ EnrichIdle
    /\ RetryIdle
    /\ DedupIdle
    /\ RLIdle
    /\ \/ /\ p_in \in PriceInputs
          /\ p_raw = PriceRaw(p_in)
       \/ /\ p_in = [fn |-> "parseRating"]
          /\ p_raw \in RatingRaw
       \/ /\ p_in = [fn |-> "cleanLocation"]
          /\ p_raw \in LocationRaw
    /\ p_ret = <<>>

\* price := parsePrice(r.RawPrice)
ParsePrice ==
    /\ pc = "parse"
    /\ p_in.fn = "parsePrice"
    /\ p_ret' = <<parsePrice(p_raw)>>
    /\ pc' = "price"
    /\ UNCHANGED <<p_in, p_raw>>
    /\ UNCHANGED <<cfg, sections, secIdx, allListings, seenURLs, collected,
                   currentURL, listings, nextURL, idx, secFailed, secResults,
                   io, lastOp, discovery, deadline>>
    /\ UNCHANGED <<mainVars, retryVars, dedupVars, rlVars, enrichVars,
                   cleanerVars, pageVars, runVars>>

\* rating := parseRating(r.RawRating)
ParseRating ==
    /\ pc = "parse"
    /\ p_in.fn = "parseRating"
    /\ p_ret' = <<parseRating(p_raw)>>
    /\ pc' = "rating"
    /\ UNCHANGED <<p_in, p_raw>>
    /\ UNCHANGED <<cfg, sections, secIdx, allListings, seenURLs, collected,
                   currentURL, listings, nextURL, idx, secFailed, secResults,
                   io, lastOp, discovery, deadline>>
    /\ UNCHANGED <<mainVars, retryVars, dedupVars, rlVars, enrichVars,
                   cleanerVars, pageVars, runVars>>

\* Location: cleanLocation(r.Location)
CleanLocation ==
    /\ pc = "parse"
    /\ p_in.fn = "cleanLocation"
    /\ p_ret' = <<cleanLocation(p_raw)>>
    /\ pc' = "location"
    /\ UNCHANGED <<p_in, p_raw>>
    /\ UNCHANGED <<cfg, sections, secIdx, allListings, seenURLs, collected,
                   currentURL, listings, nextURL, idx, secFailed, secResults,
                   io, lastOp, discovery, deadline>>
    /\ UNCHANGED <<mainVars, retryVars, dedupVars, rlVars, enrichVars,
                   cleanerVars, pageVars, runVars>>

ParseNext == ParsePrice \/ ParseRating \/ CleanLocation

SpecParse == InitParse /\ [][ParseNext]_vars

\* The amount X of a price text, in hundredths: the digits with the one or
\* two decimals written after them.
AmountHundredths(in) ==
    in.amount[1] * 100 + (IF in.decimals = "" THEN 0 ELSE 50)

\* C24 as stated: parsePrice returns a price per night: the first number X
\* of the text divided by N when the text says "for N night(s)" with N > 0,
\* X itself for a bare "$X", and never a negative value.
C24_PricePerNight ==
    pc = "price" =>
       LET r == p_ret[1]
       IN  /\ r.den > 0
           /\ r.num >= 0
           /\ p_in.amount # <<>> =>
                 /\ (p_in.stay.nights # <<>> /\ p_in.stay.nights[1] > 0) =>
                       r.num * p_in.stay.nights[1] * 100
                          = AmountHundredths(p_in) * r.den
                 /\ (p_in.lead = "" /\ p_in.dollar = "$"
                        /\ p_in.stay.text = "") =>
                       r.num * 100 = AmountHundredths(p_in) * r.den

\* The values, in hundredths, of the pieces of a text that read as a digit,
\* a point and one or two digits.
DecimalsIn(t) ==
    {DecVal(At(t, i)) * 100 + DecVal(At(t, i + 2)) * 10 :
        i \in {k \in 1 .. Len(t) :
                 IsDigit(At(t, k)) /\ At(t, k + 1) = "." /\ IsDigit(At(t, k + 2))}}
    \cup
    {DecVal(At(t, i)) * 100 + DecVal(Sub(t, i + 2, i + 3)) :
        i \in {k \in 1 .. Len(t) :
                 /\ IsDigit(At(t, k)) /\ At(t, k + 1) = "."
                 /\ IsDigit(At(t, k + 2)) /\ IsDigit(At(t, k + 3))}}

\* C25: parseRating returns 0 or a value of (0, 5] that is written in the
\* text; a text that is a value above 5 gives 0, never 5.
C25_RatingZeroOrInText ==
    pc = "rating" =>
       LET r == p_ret[1]
       IN  /\ r = 0 \/ (r > 0 /\ r <= 500 /\ r \in DecimalsIn(p_raw))
           /\ (DecimalsIn(p_raw) # {} /\ \A v \in DecimalsIn(p_raw) : v > 500)
                 => r = 0

\* "6.00" gave 0.
C25_Witness ==
    /\ pc = "rating"
    /\ p_raw = "6.00"
    /\ p_ret = <<0>>

\* The value, in hundredths, of the first piece of s from position i on
\* that reads as a digit of 0..5, a point and one or two digits and is at
\* most 5; 0 when there is none.
RECURSIVE FirstRatingInRange(_, _)
FirstRatingInRange(s, i) ==
    IF i > Len(s) THEN 0
    ELSE IF /\ At(s, i) \in {"0", "1", "2", "3", "4", "5"}
            /\ RatingMatchAt(s, i).found
            /\ ParseHundredths(RatingMatchAt(s, i).text) <= 500
         THEN ParseHundredths(RatingMatchAt(s, i).text)
         ELSE FirstRatingInRange(s, i + 1)

\* C32: parseRating returns the value of the first piece of the text that
\* is a digit of 0..5, a point and one or two digits with a value of at
\* most 5, and 0 when the text has none: a token out of that range that
\* comes earlier, or a longer number around the match, changes nothing.
C32_FirstRatingInRange ==
    pc = "rating" => p_ret[1] = FirstRatingInRange(p_raw, 1)

\* " in " begins at one of the first 30 characters of t.
HasEarlyIn(t) ==
    \E i \in 0 .. Min(29, Len(t) - 4) : SubSeq(t, i + 1, i + 4) = " in "

\* C33: when the trimmed location holds " in " beginning within its first
\* 30 characters, cleanLocation returns what follows the last " in " of
\* the location; otherwise it returns the trimmed location.
C33_AfterLastIn ==
    pc = "location" =>
       LET t == StrTrimSpace(p_raw)
       IN  p_ret[1] = IF HasEarlyIn(t)
                      THEN SubSeq(t, LastIndex(t, " in ") + 5, Len(t))
                      ELSE t

-----------------------------------------------------------------------------
(* The crawl of a site with two sections of one page of two cards each,     *)
(* one url being on both pages, followed by Clean.  Every page loads.       *)

ScenarioCards ==
    [Title : {<<"L", "o", "f", "t">>},
     URL : {"/rooms/1", "/rooms/2", "/rooms/3"}, Location : {""}]

\* Two cards with different urls.
ScenarioPages ==
    {p \in [1 .. 2 -> ScenarioCards] : p[1].URL # p[2].URL}

PageURLs(p) == {p[i].URL : i \in DOMAIN p}

\* Exactly one url is on both pages.
ScenarioSites ==
    {st \in [1 .. 2 -> ScenarioPages] :
        Cardinality(PageURLs(st[1]) \cap PageURLs(st[2])) = 1}

InitScenario ==
    /\ cfg = [PropertiesPerPage |-> 1, MaxRetries |-> MaxRetriesBound,
             MaxConcurrency |-> 3]
    /\ site \in ScenarioSites
    /\ RunIdle
    /\ ScrapeIdle("start")
    /\ EnrichIdle
    /\ ParseIdle
    /\ RetryIdle
    /\ DedupIdle
    /\ RLIdle

ScenarioNext ==
    \/ Discover \/ NextSection \/ EnterSection \/ ScrapeDone
    \/ WaitSteps
    \/ PageLoopEnter \/ RetryFirst \/ FnOk \/ PageEmpty \/ PageOk
    \/ FilterEnd \/ FilterQuotaBreak \/ FilterDuplicate
    \/ FilterMark \/ FilterWait \/ FilterKeepEnrich
    \/ PaginateStop \/ ReturnSection
    \/ MainWriteCsv \/ MainClean

SpecScenario == InitScenario /\ [][ScenarioNext]_vars

\* C26: with two sections of one page of two titled cards with urls, a
\* quota of one record per section and one url on both pages, the crawl
\* followed by Clean gives exactly two clean listings, with different urls,
\* wherever the repeated card stands on the two pages.
C26_TwoCleanRecords ==
    (pc = "insert" /\ Len(sections) = 2) =>
       /\ Len(cleanListings) = 2
       /\ cleanListings[1].URL # cleanListings[2].URL

\* The repeated card is the first card of both pages: the second section
\* gave its second card.
C26_Witness ==
    /\ pc = "insert"
    /\ Len(sections) = 2
    /\ site[1][1].URL = site[2][1].URL
    /\ Len(cleanListings) = 2
    /\ cleanListings[1].URL = site[1][1].URL
    /\ cleanListings[2].URL = site[2][2].URL

\* The urls of the listings of a sequence.
URLsOf(ls) == {ls[i].URL : i \in 1 .. Len(ls)}

\* C37: when scrapeSection returns, and from then on until the next
\* section begins, the keys of seenURLs are the urls of the listings
\* collected so far in the run and no others: a listing the range loop
\* did not come to, because the quota was reached, is not marked.
C37_SeenIsCollected ==
    pc \in {"return_section", "range_sections", "done"} =>
       /\ seenURLs = URLsOf(allListings \o collected)
       /\ \A i \in 1 .. Min(Len(secResults), Len(site)) :
          \A j \in DOMAIN site[i] :
             site[i][j].URL \notin URLsOf(allListings \o collected)
                => site[i][j].URL \notin seenURLs

\* The second card of the first page was left out when the quota was
\* reached; it is the first card of the second page, and the second
\* section collected it.
C37_Witness ==
    /\ pc = "done"
    /\ Len(secResults) = 2
    /\ site[1][2].URL = site[2][1].URL
    /\ secResults[1].records # <<>>
    /\ secResults[1].records[1].URL = site[1][1].URL
    /\ secResults[2].records # <<>>
    /\ secResults[2].records[1].URL = site[1][2].URL

-----------------------------------------------------------------------------
(* One RateLimiter shared by several goroutines calling Wait.               *)

\* Two goroutines.
InitRLShared == InitRateLimiter({"g1", "g2"})

\* Each goroutine makes one call of Wait.
WaitCallOnce(c) ==
    /\ \A i \in 1 .. Len(rl_log) : rl_log[i].caller # c
    /\ WaitCall(c)

RLSharedNext ==
    \/ Tick
    \/ \E c \in DOMAIN rl_pc : WaitCallOnce(c)
    \/ \E c \in DOMAIN rl_pc : WaitLock(c)
    \/ \E c \in DOMAIN rl_pc : WaitRead(c)
    \/ \E c \in DOMAIN rl_pc : WaitSleep(c)
    \/ \E c \in DOMAIN rl_pc : WaitWake(c)
    \/ \E c \in DOMAIN rl_pc : WaitStamp(c)
    \/ \E c \in DOMAIN rl_pc : WaitUnlock(c)
    \/ \E c \in DOMAIN rl_pc : WaitReturn(c)

SpecRLShared == InitRLShared /\ [][RLSharedNext]_vars

\* a - b without its sign
AbsDiff(a, b) == IF a >= b THEN a - b ELSE b - a

\* C30 as stated: the times at which any two Wait calls return differ by at
\* least delay, and no call is about to return while another caller is
\* sleeping inside Wait.
C30_ReturnsApart ==
    /\ \A i, j \in 1 .. Len(rl_log) :
          i # j => AbsDiff(rl_log[i].ret, rl_log[j].ret) >= rl_delay
    /\ \A c, d \in DOMAIN rl_pc :
          rl_pc[c] = "return" => rl_pc[d] \notin {"sleep", "sleeping"}

\* The callers that are between Lock and the deferred Unlock of Wait.
Locked == {c \in DOMAIN rl_pc :
             rl_pc[c] \in {"read", "sleep", "sleeping", "stamp", "unlock"}}

\* C30 amended: the clock readings that any two Wait calls stored in
\* lastCall differ by at least delay, and no call is between its Lock and
\* its Unlock while another caller is sleeping inside Wait.
C30_StampsApart ==
    /\ \A i, j \in 1 .. Len(rl_log) :
          i # j => AbsDiff(rl_log[i].stamp, rl_log[j].stamp) >= rl_delay
    /\ \A c, d \in DOMAIN rl_pc :
          (c # d /\ rl_pc[d] \in {"sleep", "sleeping"}) => c \notin Locked

\* Two goroutines have each made a call; the one that came second to the
\* mutex slept and stored a reading exactly delay after the other's.
C30_Witness ==
    /\ Len(rl_log) >= 2
    /\ rl_delay >= 2
    /\ rl_log[1].caller # rl_log[2].caller
    /\ rl_log[2].slept
    /\ rl_log[2].stamp = rl_log[1].stamp + rl_delay

-----------------------------------------------------------------------------
(* Two runs of the program, one after the other, which differ in           *)
(* MAX_CONCURRENCY only.  The page loads of both runs are logged, with the  *)
(* answers of the site; the site is free to answer the second run as it     *)
(* likes.                                                                   *)

Concurrencies == {1, 3}

ConcCards ==
    << [Title |-> <<"L", "o", "f", "t">>, URL |-> "/rooms/1", Location |-> ""],
       [Title |-> NoTitle, URL |-> "/rooms/2", Location |-> ""],
       [Title |-> <<"L", "o", "f", "t">>, URL |-> "", Location |-> ""] >>

\* The result pages of the two sections of the site: the second section
\* shows a listing of the first one again, and one without a url.
ConcSites ==
    { << <<ConcCards[1], ConcCards[2]>>, <<ConcCards[1], ConcCards[3]>> >> }

\* The first run is made with MAX_CONCURRENCY=1.
InitConc ==
    /\ cfg \in [PropertiesPerPage : {1}, MaxRetries : {2},
                MaxConcurrency : {1}]
    /\ site \in ConcSites
    /\ fetched = << <<>> >>
    /\ prevRun = <<>>
    /\ ScrapeIdle("connect")
    /\ EnrichIdle
    /\ ParseIdle
    /\ RetryIdle
    /\ DedupIdle
    /\ RLIdle

\* The program is started again with another MAX_CONCURRENCY: main begins
\* anew with config.Load, and the set-up of PostgreSQL comes next; the
\* scraper and the rate limiter of the new process are fresh.
Rerun ==
    /\ pc = "done"
    /\ prevRun = <<>>
    /\ fetched # <<>>
    /\ prevRun' = <<[conc |-> cfg.MaxConcurrency, log |-> fetched[1],
                     listings |-> allListings]>>
    /\ fetched' = << <<>> >>
    /\ \E m \in Concurrencies \ {cfg.MaxConcurrency} :
          cfg' = [cfg EXCEPT !.MaxConcurrency = m]
    /\ pc' = "connect"
    /\ allListings' = <<>>
    /\ pageStart' = <<>>
    /\ sections' = <<>>
    /\ secIdx' = 1
    /\ seenURLs' = {}
    /\ collected' = <<>>
    /\ currentURL' = ""
    /\ listings' = <<>>
    /\ nextURL' = ""
    /\ idx' = 1
    /\ secFailed' = FALSE
    /\ secResults' = <<>>
    /\ io' = <<>>
    /\ lastOp' = "none"
    /\ discovery' = "none"
    /\ deadline' = NoDeadline
    /\ rl_lastCall' = <<>>
    /\ UNCHANGED <<now, rl_delay, rl_mu, rl_pc, rl_elapsed, rl_wake, rl_call,
                   rl_log>>
    /\ UNCHANGED site
    /\ UNCHANGED <<retryVars, dedupVars, mainVars, enrichVars, cleanerVars,
                   parseVars>>

\* The home page of the site loads and holds section links in both runs;
\* no result page of the site is without cards.
ConcNext ==
    \/ MainConnect
    \/ MainCreateTable
    \/ Discover /\ discovery' = "found"
    \/ NextSection
    \/ EnterSection
    \/ WaitSteps
    \/ ScrapeDone
    \/ PageLoopEnter
    \/ RetryFirst
    \/ RetrySleep
    \/ FnFail
    \/ FnOk
    \/ RetryExhausted
    \/ PageError
    \/ PageOk
    \/ FilterEnd
    \/ FilterQuotaBreak
    \/ FilterDuplicate
    \/ FilterMark
    \/ FilterWait
    \/ FilterKeepEnrich
    \/ FilterKeepPlain
    \/ PaginateStop
    \/ ReturnSection
    \/ Rerun

SpecConc == InitConc /\ [][ConcNext]_vars

\* The number of page loads a step made.
Loads(ops) == Cardinality({i \in 1 .. Len(ops) : ops[i] = "Navigate"})

\* The site has so far answered the loads of this run as it answered the
\* loads of the run before: a load of the url that was loaded at the same
\* place of the earlier run got the same answer.
SameAnswers ==
    \A i \in 1 .. Min(Len(fetched[1]), Len(prevRun[1].log)) :
       fetched[1][i].req = prevRun[1].log[i].req
          => fetched[1][i].resp = prevRun[1].log[i].resp

-----------------------------------------------------------------------------
(* The crawl of a small site with every page load logged: what was asked    *)
(* for and what the site answered.  The home page loads and holds section   *)
(* links, the site has two sections with one result page each, and the      *)
(* deadline of the crawl may pass.                                          *)

\* Section 1 shows two listings with a detail page and section 2 one of
\* them again, next to a listing without a url; or section 1 shows one
\* listing twice and the page of section 2 has no card.
LogSites ==
    { << <<ConcCards[1], ConcCards[2]>>, <<ConcCards[1], ConcCards[3]>> >>,
      << <<ConcCards[1], ConcCards[1]>>, <<>> >> }

\* The page loads of a run that are followed.
MaxLoads == 7

InitLog ==
    /\ cfg \in [PropertiesPerPage : {1, 2}, MaxRetries : {2},
                MaxConcurrency : {3}]
    /\ site \in LogSites
    /\ fetched = << <<>> >>
    /\ prevRun = <<>>
    /\ ScrapeIdle("start")
    /\ EnrichIdle
    /\ ParseIdle
    /\ RetryIdle
    /\ DedupIdle
    /\ RLIdle

LogNext ==
    \/ Expire
    \/ Discover /\ discovery' = "found"
    \/ NextSection
    \/ EnterSection
    \/ WaitSteps
    \/ ScrapeDone
    \/ PageLoopEnter
    \/ RetryNext
    \/ PageError
    \/ PageEmpty
    \/ PageOk
    \/ FilterEnd
    \/ FilterQuotaBreak
    \/ FilterDuplicate
    \/ FilterMark
    \/ FilterWait
    \/ FilterKeepEnrich
    \/ FilterKeepPlain
    \/ PaginateStop
    \/ PaginateNext /\ Len(fetched[1]) < MaxLoads
    \/ PaginateLoop
    \/ ReturnSection

SpecLog == InitLog /\ [][LogNext]_vars

\* The page load a step has made, if it made one, and the answer to it.
Loaded == fetched' # fetched
Answer == fetched'[1][Len(fetched'[1])].resp

\* C21: when the detail page of a kept listing fails to load, or loads
\* and no description is extracted from it, the listing is still appended
\* to collected with an empty description, the range loop goes on with the
\* next listing of the page, and neither the section nor Scrape reports an
\* error.
C21_EnrichFailureKeepsRecord ==
    [][ (/\ pc = "enrich"
         /\ Loaded
         /\ Answer.err # "" \/ Answer.desc = <<>>) =>
          /\ collected' = Append(collected, listings[idx])
          /\ collected'[Len(collected')].Description = <<>>
          /\ pc' = "filter"
          /\ idx' = idx + 1
          /\ listings' = listings
          /\ secFailed' = secFailed
          /\ ~scrapeSectionErr(secFailed')
          /\ ~ScrapeErr ]_vars

\* Before the deadline the detail page of a listing failed to load; the
\* listing was appended without a description, the quota is not reached
\* and a further listing of the page is next.
C21_Witness ==
    /\ ~deadline.expired
    /\ pc = "filter"
    /\ io = <<"Navigate">>
    /\ fetched[1][Len(fetched[1])].req = listings[idx - 1].URL
    /\ fetched[1][Len(fetched[1])].resp.err # ""
    /\ idx <= Len(listings)
    /\ collected = <<listings[idx - 1]>>
    /\ collected[1].URL # ""
    /\ collected[1].Description = <<>>
    /\ ~QuotaReached(Len(collected), cfg.PropertiesPerPage)
    /\ ~secFailed

\* C40: in scrapePage only a navigation error and a card extraction error
\* lead to another attempt.  A result page that loaded, whatever it holds,
\* is a success of the attempt that loaded it; when it holds no card the
\* next step of the crawl ends the section without a further load; a
\* failed lookup of the next-page link gives an empty nextURL and no error.
C40_RetryOnlyOnErrors ==
    [][ /\ (r_pc = "call" /\ r_pc' = "loop") =>
              /\ Loaded
              /\ Answer.err \in FnErrors
              /\ lastErr'.msg = Answer.err
              /\ r_calls' = Append(r_calls, lastErr')
        /\ (r_pc = "call" /\ Loaded /\ Answer.err = "") =>
              /\ r_pc' = "returned"
              /\ r_ret' = RetNil
              /\ attempt' = attempt
              /\ r_calls' = Append(r_calls, NoErr)
              /\ nextURL' = Answer.next
        /\ (r_pc = "call" /\ Loaded /\ Answer.nextErr) =>
              /\ Answer.err = ""
              /\ nextURL' = ""
              /\ r_ret' = RetNil
        /\ (pc = "scrapePage" /\ r_pc = "returned" /\ ~r_ret.failed
              /\ listings = <<>> /\ deadline' = deadline) =>
              /\ pc' = "return_section"
              /\ r_pc' = "idle"
              /\ r_sleeps' = <<>>
              /\ collected' = collected
              /\ ~Loaded
      ]_vars

\* The places of the log where url was loaded.
LoadsOf(url) == {i \in 1 .. Len(fetched[1]) : fetched[1][i].req = url}

\* Several attempts were allowed.  The one load of the result page of
\* section 1 gave cards and a failed lookup of the next-page link: the
\* section ended short of its quota, unfailed.  The one load of the
\* result page of section 2 gave no card, and the section ended.
C40_Witness ==
    /\ pc = "done"
    /\ cfg.MaxRetries > 1
    /\ Len(sections) = 2
    /\ Len(secResults) = 2
    /\ \E i, j \in 1 .. Len(fetched[1]) :
          /\ LoadsOf(sections[1].URL) = {i}
          /\ fetched[1][i].resp.nextErr
          /\ fetched[1][i].resp.cards # <<>>
          /\ Len(secResults[1].records) = 1
          /\ ~QuotaReached(1, cfg.PropertiesPerPage)
          /\ ~secResults[1].failed
          /\ LoadsOf(sections[2].URL) = {j}
          /\ fetched[1][j].resp.err = ""
          /\ fetched[1][j].resp.cards = <<>>
          /\ secResults[2].records = <<>>

-----------------------------------------------------------------------------
(* DataCleaner.Clean on complete RawListing records, called twice on the    *)
(* same slice while the clock runs.  A time.Time is <<>> for the zero time  *)
(* and <<t>> for the clock reading t.                                       *)

ZeroTime == <<>>

\* The raw price and rating texts of a card: none that parses, or both.
FullTexts ==
    {[RawPrice |-> "free", RawRating |-> "New"],
     [RawPrice |-> "$71 for 2 nights", RawRating |-> "4.9"]}

FullRaw ==
    {[Platform |-> "Airbnb", Title |-> t, RawPrice |-> x.RawPrice,
      Location |-> "Paris", RawRating |-> x.RawRating, URL |-> "",
      Description |-> <<>>, ScrapedAt |-> at] :
        t \in {<<" ">>, <<"a">>, <<"b">>}, x \in FullTexts,
        at \in {ZeroTime, <<0>>}}

\* Clean: the Listing made of the raw record r when time.Now() reads t.
Listing(r, t) ==
    [Platform |-> StrTrimSpace(r.Platform),
     Title |-> TrimSpace(r.Title),
     Price |-> parsePrice(r.RawPrice),
     Location |-> cleanLocation(r.Location),
     Rating |-> parseRating(r.RawRating),
     URL |-> StrTrimSpace(r.URL),
     Description |-> TrimSpace(r.Description),
     ScrapedAt |-> IF r.ScrapedAt = ZeroTime THEN <<t>> ELSE r.ScrapedAt]

\* What the clock can read during the n rounds of a loop that begins at
\* t0: one reading per round, none earlier than the one before.
ClockReadings(t0, n) ==
    {ts \in [1 .. n -> t0 .. MaxTime] :
        \A i \in 1 .. n - 1 : ts[i] <= ts[i + 1]}

\* Clean, the loop over raw, with every field of the Listing; ts[i] is
\* what time.Now() reads in the round of the i-th record of raw.
RECURSIVE CleanAtFrom(_, _, _, _)
CleanAtFrom(raw, seen, cleaned, ts) ==
    IF raw = <<>> THEN cleaned
    ELSE
      LET r == Head(raw)
      IN  IF TrimSpace(r.Title) = <<>> \/ CleanKey(r) \in seen
          THEN CleanAtFrom(Tail(raw), seen, cleaned, Tail(ts))
          ELSE CleanAtFrom(Tail(raw), seen \cup {CleanKey(r)},
                           Append(cleaned, Listing(r, Head(ts))), Tail(ts))

CleanAt(raw, ts) == CleanAtFrom(raw, {}, <<>>, ts)

\* The clock when the loop of Clean is over.
ClockAfter(t0, ts) == IF ts = <<>> THEN t0 ELSE ts[Len(ts)]

InitCleanTwice ==
    /\ cfg \in [PropertiesPerPage : {1}, MaxRetries : {0},
               MaxConcurrency : {3}]
    /\ site = <<>>
    /\ RunIdle
    /\ pc = "clean"
    /\ allListings \in SeqsUpTo(FullRaw, MaxRaw)
    /\ CrawlIdle
    /\ MainIdle
    /\ EnrichIdle
    /\ ParseIdle
    /\ RetryIdle
    /\ DedupIdle
    /\ RLIdle

\* cleaner.Clean(rawListings)
CleanFirst ==
    /\ pc = "clean"
    /\ \E ts \in ClockReadings(now, Len(allListings)) :
          /\ cleanListings' = CleanAt(allListings, ts)
          /\ now' = ClockAfter(now, ts)
    /\ pc' = "cleaned"
    /\ io' = <<>>
    /\ UNCHANGED <<csvErr, dbRows, dbRet, reported, exitCode>>
    /\ UNCHANGED <<cfg, sections, secIdx, allListings, seenURLs, collected,
                   currentURL, listings, nextURL, idx, secFailed, secResults,
                   lastOp, discovery, deadline>>
    /\ UNCHANGED <<rl_lastCall, rl_delay, rl_mu, rl_pc, rl_elapsed, rl_wake,
                   rl_call, rl_log>>
    /\ UNCHANGED <<retryVars, dedupVars, enrichVars, cleanerVars,
                   parseVars, pageVars, runVars>>

\* cleaner.Clean(rawListings) once more, on the same slice.
CleanSecond ==
    /\ pc = "cleaned"
    /\ \E ts \in ClockReadings(now, Len(allListings)) :
          /\ recleaned' = <<CleanAt(allListings, ts)>>
          /\ now' = ClockAfter(now, ts)
    /\ pc' = "cleaned twice"
    /\ io' = <<>>
    /\ UNCHANGED report
    /\ UNCHANGED <<cfg, sections, secIdx, allListings, seenURLs, collected,
                   currentURL, listings, nextURL, idx, secFailed, secResults,
                   lastOp, discovery, deadline>>
    /\ UNCHANGED <<rl_lastCall, rl_delay, rl_mu, rl_pc, rl_elapsed, rl_wake,
                   rl_call, rl_log>>
    /\ UNCHANGED <<mainVars, retryVars, dedupVars, enrichVars,
                   parseVars, pageVars, runVars>>

CleanTwiceNext == Tick \/ CleanFirst \/ CleanSecond

SpecCleanTwice == InitCleanTwice /\ [][CleanTwiceNext]_vars

\* No character of the text is a digit.
NoDigit(s) == \A i \in 1 .. Len(s) : ~IsDigit(At(s, i))

\* C34: Clean returns a result for every slice of raw records; it drops
\* the records whose trimmed title is empty, gives 0 for a price or rating
\* text that does not parse, and called again on the same slice it returns
\* the same listings, ScrapedAt included.
C34_CleanIsPure ==
    pc = "cleaned twice" =>
       /\ Len(cleanListings) = Cardinality(FirstOfKey(allListings))
       /\ \A n \in 1 .. Len(cleanListings) :
             LET r == allListings[NthOf(FirstOfKey(allListings), n)]
             IN  /\ cleanListings[n].Title # <<>>
                 /\ NoDigit(r.RawPrice) => cleanListings[n].Price = ZeroPrice
                 /\ NoDigit(r.RawRating) => cleanListings[n].Rating = 0
       /\ recleaned[1] = cleanListings

-----------------------------------------------------------------------------
(* InsightService.Generate (services/insights.go) called on its own.  A     *)
(* price is a whole number and a rating is held in hundredths; the average  *)
(* is held as a fraction, so its rounding is not modelled.                  *)

MaxListings == 6

\* maxTop := 5
maxTop == 5

InsightListings ==
    {[Platform |-> "Airbnb", Price |-> 0, Rating |-> 0, Location |-> ""],
     [Platform |-> "Airbnb", Price |-> 50, Rating |-> 490, Location |-> "Paris"],
     [Platform |-> "Other", Price |-> 71, Rating |-> 450, Location |-> "Paris"],
     [Platform |-> "Airbnb", Price |-> 0, Rating |-> 450, Location |-> "Rome"]}

\* report := &models.InsightReport{ListingsByLocation: make(map[string]int)}
EmptyReport ==
    [TotalListings |-> 0, AirbnbListings |-> 0, AveragePrice |-> [num |-> 0, den |-> 1],
     MinPrice |-> 0, MaxPrice |-> 0, MostExpensive |-> <<>>, TopRated |-> <<>>,
     ListingsByLocation |-> <<>>, totalPrice |-> 0]

\* Mutant: a price of 0 takes part in the minimum like any other.
PriceStatsCountsZero(rep, l) ==
    [rep EXCEPT
        !.totalPrice = @ + l.Price,
        !.MinPrice = IF l.Price < @ THEN l.Price ELSE @,
        !.MaxPrice = IF l.Price > @ THEN l.Price ELSE @,
        !.MostExpensive = IF l.Price > rep.MaxPrice THEN <<l>> ELSE @]

\* The loop body, price stats: only a price above 0 is counted.
PriceStats(rep, l) ==
    IF l.Price > 0
    THEN [rep EXCEPT
            !.totalPrice = @ + l.Price,
            !.MinPrice = IF l.Price < @ \/ @ = 0 THEN l.Price ELSE @,
            !.MaxPrice = IF l.Price > @ THEN l.Price ELSE @,
            !.MostExpensive = IF l.Price > rep.MaxPrice THEN <<l>> ELSE @]
    ELSE rep

\* The loop body, counts: the listings, those of Airbnb, those of a
\* location.
Counts(rep, l) ==
    [rep EXCEPT
        !.TotalListings = @ + 1,
        !.AirbnbListings = IF l.Platform = "Airbnb" THEN @ + 1 ELSE @,
        !.ListingsByLocation =
            IF l.Location = "" THEN @
            ELSE IF \E i \in DOMAIN @ : @[i].loc = l.Location
                 THEN [i \in DOMAIN @ |->
                          IF @[i].loc = l.Location
                          THEN [loc |-> l.Location, n |-> @[i].n + 1]
                          ELSE @[i]]
                 ELSE Append(@, [loc |-> l.Location, n |-> 1])]

\* for _, l := range listings { ... }
RECURSIVE GenerateLoop(_, _)
GenerateLoop(ls, rep) ==
    IF ls = <<>> THEN rep
    ELSE GenerateLoop(Tail(ls), PriceStats(Counts(rep, Head(ls)), Head(ls)))

\* rated: the listings with a rating above 0, in the order of the input.
Rated(ls) == SelectSeq(ls, LAMBDA l : l.Rating > 0)

\* What sort.Slice can leave in rated: any order of its elements in which
\* no rating is below a later one (the sort is not stable).
SortOutcomes(rated) ==
    {[i \in 1 .. Len(rated) |-> rated[p[i]]] : p \in
        {q \in Permutations(1 .. Len(rated)) :
            \A i \in 1 .. (Len(rated) - 1) :
                rated[q[i]].Rating >= rated[q[i + 1]].Rating}}

\* Generate, with sorted what the sort left in rated.
Generate(ls, sorted) ==
    IF Len(ls) = 0 THEN EmptyReport
    ELSE
      LET rep == GenerateLoop(ls, [EmptyReport EXCEPT !.MinPrice = ls[1].Price,
                                                      !.MaxPrice = ls[1].Price])
      IN  [rep EXCEPT
              !.AveragePrice = IF rep.TotalListings > 0
                               THEN [num |-> rep.totalPrice,
                                     den |-> rep.TotalListings]
                               ELSE @,
              !.MostExpensive = IF @ = <<>> /\ Len(ls) > 0 THEN <<ls[1]>> ELSE @,
              !.TopRated = SubSeq(sorted, 1, Min(maxTop, Len(sorted)))]

InitInsight ==
    /\ cfg \in [PropertiesPerPage : {1}, MaxRetries : {0},
               MaxConcurrency : {3}]
    /\ site = <<>>
    /\ RunIdle
    /\ pc = "report"
    /\ allListings = <<>>
    /\ cleanListings \in SeqsUpTo(InsightListings, MaxListings)
    /\ csvErr = FALSE
    /\ dbRows = <<>>
    /\ dbRet = [err |-> FALSE, inserted |-> 0, skipped |-> 0]
    /\ reported = FALSE
    /\ exitCode = <<>>
    /\ recleaned = <<>>
    /\ report = <<>>
    /\ CrawlIdle
    /\ EnrichIdle
    /\ ParseIdle
    /\ RetryIdle
    /\ DedupIdle
    /\ RLIdle

\* report := insightSvc.Generate(cleanListings)
GenerateCall ==
    /\ pc = "report"
    /\ \E sorted \in SortOutcomes(Rated(cleanListings)) :
          report' = <<Generate(cleanListings, sorted)>>
    /\ pc' = "reported"
    /\ io' = <<>>
    /\ UNCHANGED recleaned
    /\ UNCHANGED <<cfg, sections, secIdx, allListings, seenURLs, collected,
                   currentURL, listings, nextURL, idx, secFailed, secResults,
                   lastOp, discovery, deadline>>
    /\ UNCHANGED <<mainVars, retryVars, dedupVars, rlVars, enrichVars,
                   parseVars, pageVars, runVars>>

SpecInsight == InitInsight /\ [][GenerateCall]_vars

\* The numbers of a sequence, greatest first.
RECURSIVE Descending(_)
Descending(s) ==
    IF s = <<>> THEN <<>>
    ELSE LET i == CHOOSE k \in 1 .. Len(s) : \A j \in 1 .. Len(s) : s[k] >= s[j]
         IN  <<s[i]>> \o Descending(SubSeq(s, 1, i - 1) \o SubSeq(s, i + 1, Len(s)))

PricesOf(ls) == {ls[i].Price : i \in 1 .. Len(ls)}
RatingsOf(ls) == [i \in 1 .. Len(ls) |-> ls[i].Rating]
SumPrices(ls) == SumSeq([i \in 1 .. Len(ls) |-> ls[i].Price])
Least(S) == CHOOSE x \in S : \A y \in S : x <= y
Greatest(S) == CHOOSE x \in S : \A y \in S : x >= y

\* How many times the listing l stands in ls.
Times(ls, l) == Cardinality({i \in 1 .. Len(ls) : ls[i] = l})

\* C35 as stated: of a non-empty slice, MinPrice is the least and MaxPrice
\* the greatest Price of all listings, AveragePrice is the sum of the
\* prices over the number of listings, MostExpensive is a listing priced
\* MaxPrice, and TopRated holds the five listings (all of them, when there
\* are fewer) with the greatest ratings, the greatest first.
C35_AggregatesOverAll ==
    (pc = "reported" /\ cleanListings # <<>>) =>
       LET r == report[1]
           ls == cleanListings
       IN  /\ r.MinPrice = Least(PricesOf(ls))
           /\ r.MaxPrice = Greatest(PricesOf(ls))
           /\ r.AveragePrice = [num |-> SumPrices(ls), den |-> Len(ls)]
           /\ r.MostExpensive # <<>>
           /\ Times(ls, r.MostExpensive[1]) > 0
           /\ r.MostExpensive[1].Price = r.MaxPrice
           /\ RatingsOf(r.TopRated) =
                 SubSeq(Descending(RatingsOf(ls)), 1, Min(maxTop, Len(ls)))
           /\ \A i \in 1 .. Len(r.TopRated) :
                 Times(r.TopRated, r.TopRated[i]) <= Times(ls, r.TopRated[i])

\* C35 amended: MinPrice is the least Price above 0 (0 when no listing has
\* one), and TopRated holds the five listings (all of them, when there are
\* fewer) with the greatest ratings among the listings rated above 0; the
\* rest is as stated.
C35_AggregatesOverPositive ==
    (pc = "reported" /\ cleanListings # <<>>) =>
       LET r == report[1]
           ls == cleanListings
           paid == PricesOf(ls) \ {0}
       IN  /\ r.MinPrice = IF paid = {} THEN 0 ELSE Least(paid)
           /\ r.MaxPrice = Greatest(PricesOf(ls))
           /\ r.AveragePrice = [num |-> SumPrices(ls), den |-> Len(ls)]
           /\ r.MostExpensive # <<>>
           /\ Times(ls, r.MostExpensive[1]) > 0
           /\ r.MostExpensive[1].Price = r.MaxPrice
           /\ RatingsOf(r.TopRated) =
                 SubSeq(Descending(RatingsOf(Rated(ls))), 1,
                        Min(maxTop, Len(Rated(ls))))
           /\ \A i \in 1 .. Len(r.TopRated) :
                 Times(r.TopRated, r.TopRated[i]) <= Times(ls, r.TopRated[i])

\* Six rated listings, the first one without a price: MinPrice is 50, and
\* TopRated holds five of them, the one left out being one of those rated
\* lowest: here the one priced 71, which came before the unpriced one.
C35_Witness ==
    /\ pc = "reported"
    /\ Len(cleanListings) = 6
    /\ Len(Rated(cleanListings)) = 6
    /\ cleanListings[1].Price = 0
    /\ cleanListings[2].Price = 71
    /\ \A i \in 3 .. 6 : cleanListings[i].Rating = 490
    /\ report[1].MinPrice = 50
    /\ report[1].MaxPrice = 71
    /\ Len(report[1].TopRated) = 5
    /\ report[1].TopRated[1].Rating = 490
    /\ report[1].TopRated[5].Price = 0

-----------------------------------------------------------------------------
(* The crawl of a site whose cards lack a url: two sections, each with one  *)
(* page of two cards, a quota of two records per section, which no         *)
(* section reaches before its page ends.  Every page loads.                *)

\* No title holds " in ", so the page script gives no card a location and
\* scrapePage puts the name of the section.
NoURLCards ==
    {[Title |-> <<"L", "o", "f", "t">>, URL |-> "", Location |-> ""],
     [Title |-> <<"F", "l", "a", "t">>, URL |-> "", Location |-> ""],
     [Title |-> <<"L", "o", "f", "t">>, URL |-> "/rooms/1", Location |-> ""]}

NoURLSites == [1 .. 2 -> [1 .. 2 -> NoURLCards]]

InitNoURL ==
    /\ cfg = [PropertiesPerPage |-> 2, MaxRetries |-> 1, MaxConcurrency |-> 3]
    /\ site \in NoURLSites
    /\ RunIdle
    /\ ScrapeIdle("start")
    /\ EnrichIdle
    /\ ParseIdle
    /\ RetryIdle
    /\ DedupIdle
    /\ RLIdle

NoURLNext ==
    \/ Discover \/ NextSection \/ EnterSection \/ ScrapeDone
    \/ WaitSteps \/ PaginateLoop
    \/ PageLoopEnter \/ RetryFirst \/ FnOk \/ PageEmpty \/ PageOk
    \/ FilterEnd \/ FilterDuplicate
    \/ FilterMark \/ FilterWait \/ FilterKeepEnrich \/ FilterKeepPlain
    \/ PaginateStop \/ PaginateNext \/ ReturnSection

SpecNoURL == InitNoURL /\ [][NoURLNext]_vars

\* The positions of the listings without a url.
WithoutURL(ls) == {i \in 1 .. Len(ls) : ls[i].URL = ""}

\* C36: the empty string is a key of seenURLs like any other: of all the
\* listings without a url that the pages of a run hold, whatever their
\* titles and locations and whatever their sections, only the first one
\* met is collected.
C36_OneListingWithoutURL ==
    LET kept == allListings \o collected
    IN  /\ Cardinality(WithoutURL(kept)) <= 1
        /\ WithoutURL(kept) # {} <=> "" \in seenURLs

\* The run is over: both pages held listings without a url, of different
\* titles, and of different locations from one section to the other; the
\* first one of the first page is the only one
\* returned, and the second section returned nothing.
C36_Witness ==
    /\ pc = "done"
    /\ Len(secResults) = 2
    /\ \A i \in 1 .. 2 : site[1][i].URL = "" /\ site[2][i].URL = ""
    /\ site[1][1] # site[1][2]
    /\ site[2][1] = site[1][2]
    /\ Len(allListings) = 1
    /\ allListings[1].Title = site[1][1].Title
    /\ secResults[2].records = <<>>

\* The crawling goroutine keeps running: no deadline, and a step that can
\* be taken is taken.
SpecNoURLLive == SpecNoURL /\ WF_vars(NoURLNext)

\* C38: a section crawl that has begun reaches its end, whatever the pages
\* are and without the deadline: scrapeSection returns after finitely many
\* page loads even when the next-page links form a cycle or every page
\* holds only listings that were seen before.
C38_SectionTerminates ==
    (pc = "page_loop") ~> (pc = "return_section")

-----------------------------------------------------------------------------
(* RetryWithBackoff with nothing to try, under Spec                         *)

\* C39: with MaxRetries <= 0 RetryWithBackoff never calls fn and returns
\* an error: no result page is loaded, and every section ends with no
\* listing collected.
C39_NoAttemptNoPage ==
    cfg.MaxRetries <= 0 =>
        /\ r_pc # "call"
        /\ r_calls = <<>>
        /\ r_pc = "returned" => r_ret.failed /\ r_ret.wraps = NoErr
        /\ io # <<"Navigate">> \/ pc = "range_sections"
        /\ listings = <<>> /\ collected = <<>> /\ allListings = <<>>
        /\ \A k \in 1 .. Len(secResults) : secResults[k].records = <<>>

\* Two sections were crawled with MaxRetries <= 0 and a positive quota, and
\* both ended on the error of RetryWithBackoff.
C39_Witness ==
    /\ cfg.MaxRetries <= 0
    /\ cfg.PropertiesPerPage > 0
    /\ pc = "done"
    /\ Len(secResults) = 2
    /\ \A k \in 1 .. 2 : secResults[k].failed

====
